---- MODULE Spec2Model ----
(***************************************************************************)
(* Model of the botNEWSet news pipeline: title tokenizer, similarity       *)
(* engine, the two deduplicators, the relevance sub-scores and the ranker  *)
(* with its persistent "sent cache" (the DeliveredSet).                    *)
(*                                                                         *)
(* Representation.  A title is the sequence of its whitespace-separated    *)
(* raw tokens; a link is a sequence of characters; times are integers      *)
(* (hours for the ranker, minutes for the recency score).  Ratios are      *)
(* records [num, den] compared by cross-multiplication, which agrees with  *)
(* the IEEE comparison of the quotient against the decimal thresholds for  *)
(* the small integers involved.                                            *)
(***************************************************************************)
EXTENDS Integers, Sequences, FiniteSets, TLC

VARIABLES
    clock,          \* Date.now(), in hours
    store,          \* the .sent-cache.json record: [exists, urls, timestamp]
    call,           \* what the last rankNews call read, was given and returned
    deliveredAt,    \* history: canonical URL -> time it was last recorded as delivered
    returnedBefore, \* history: canonical URLs returned by calls before the last one
    allOk,          \* history: every write succeeded and every read was non-stale
    ncalls,         \* number of rankNews calls made
    input,          \* argument of the pure function under check
    output,         \* its result
    phase,          \* "ready" before the function is applied, "done" after
    rel,            \* the computeRelevance call in progress: its locals
    runs,           \* the command handlers in progress, one record per command
    lock,           \* the bot processes of the host and the .bot.pid file
    sup,            \* the supervisor (runner.js): its globals, children, timers
    poll            \* the polling of one bot process: its globals and timers

vars == <<clock, store, call, deliveredAt, returnedBefore, allOk, ncalls,
          input, output, phase, rel, runs, lock, sup, poll>>

rankVars == <<clock, store, call, deliveredAt, returnedBefore, allOk, ncalls>>
fnVars == <<input, output, phase>>
runVars == <<rel, runs>>
procVars == <<lock, sup, poll>>

(***************************************************************************)
(* Bounds of the model.                                                    *)
(***************************************************************************)
MaxTitleLen == 3
MaxDedupLen == 3
MaxScore == 2
MaxCalls == 3
MaxClock == 50
MaxRankInput == 2
MaxPickLen == 4
MaxAgeTenths == 250
MaxCrossLen == 4
MaxRuns == 2
MaxTrendLen == 4
MaxProcs == 3
MaxChildren == 5
MaxErrorCount == 11
MaxRestarts == 3

(***************************************************************************)
(* Generic helpers.                                                        *)
(***************************************************************************)
Range(s) == { s[i] : i \in 1..Len(s) }

SeqsUpTo(S, n) == UNION { [1..k -> S] : k \in 0..n }

RECURSIVE Flatten(_)
Flatten(ss) == IF ss = <<>> THEN <<>> ELSE Head(ss) \o Flatten(Tail(ss))

Min(a, b) == IF a <= b THEN a ELSE b

\* ratio r >= p/100
RatioGeq(r, p) == r.num * 100 >= p * r.den

Zero == [num |-> 0, den |-> 1]

(***************************************************************************)
(* dedup: normalizeTitle / extractSignificantWords                         *)
(***************************************************************************)
\* What lowercasing and the two replace() calls of normalizeTitle do to one
\* raw token: upper case is lowered and every character outside the
\* alphabet (quotes, dashes, punctuation) becomes a word separator.
NormToken(t) ==
    CASE t = "Trump"    -> <<"trump">>
      [] t = "China"    -> <<"china">>
      [] t = "China's"  -> <<"china", "s">>
      [] t = "tariffs," -> <<"tariffs">>
      [] t = "It"       -> <<"it">>
      [] t = "-"        -> <<>>
      [] OTHER          -> <<t>>

normalizeTitle(title) == Flatten([i \in 1..Len(title) |-> NormToken(title[i])])

DEDUP_STOP_WORDS ==
    { "a", "an", "the", "is", "are", "was", "were", "be", "been", "to", "of",
      "in", "for", "on", "with", "at", "by", "from", "as", "and", "but", "or",
      "it", "its", "this", "that", "has", "have", "had", "will", "not", "no",
      "can", "do", "does", "did", "says", "said", "new", "how", "what", "why",
      "who", "when", "where", "after", "over", "up", "out", "into", "about",
      "de", "da", "dos", "das", "em", "na", "nos", "nas",
      "um", "uma", "por", "para", "com", "sem", "que", "se", "mais", "mas",
      "seu", "sua", "foi", "ser", "ter", "diz", "são", "tem", "vai",
      "sobre", "entre", "como", "já", "até", "não", "há", "os" }

IsSignificant(w) == Len(w) > 2 /\ w \notin DEDUP_STOP_WORDS

extractSignificantWords(title) == SelectSeq(normalizeTitle(title), IsSignificant)

(***************************************************************************)
(* dedup: jaccardSimilarity / overlapCoefficient / areSimilar              *)
(***************************************************************************)
jaccardSimilarity(wordsA, wordsB) ==
    LET setA == Range(wordsA)
        setB == Range(wordsB)
    IN  IF setA = {} \/ setB = {} THEN Zero
        ELSE [num |-> Cardinality(setA \cap setB),
              den |-> Cardinality(setA \cup setB)]

overlapCoefficient(wordsA, wordsB) ==
    LET setA == Range(wordsA)
        setB == Range(wordsB)
    IN  IF setA = {} \/ setB = {} THEN Zero
        ELSE [num |-> Cardinality(setA \cap setB),
              den |-> Min(Cardinality(setA), Cardinality(setB))]

areSimilar(titleA, titleB) ==
    LET wordsA == extractSignificantWords(titleA)
        wordsB == extractSignificantWords(titleB)
        jaccard == jaccardSimilarity(wordsA, wordsB)
        overlap == overlapCoefficient(wordsA, wordsB)
    IN  IF Len(wordsA) <= 2 \/ Len(wordsB) <= 2
        THEN RatioGeq(jaccard, 60)
        ELSE \/ RatioGeq(jaccard, 35)
             \/ RatioGeq(overlap, 65)
             \/ RatioGeq(jaccard, 25) /\ RatioGeq(overlap, 50)

(***************************************************************************)
(* dedup: deduplicateBySimilarity / finalDedup                             *)
(***************************************************************************)
\* Array.prototype.sort((a, b) => b.relevanceScore - a.relevanceScore):
\* a stable sort by descending score, here by insertion.
RECURSIVE InsertByScore(_, _)
InsertByScore(sorted, item) ==
    IF sorted = <<>> THEN <<item>>
    ELSE IF Head(sorted).relevanceScore >= item.relevanceScore
         THEN <<Head(sorted)>> \o InsertByScore(Tail(sorted), item)
         ELSE <<item>> \o sorted

\* Bug-shaped variant: the comparator is a - b, an ascending sort.
RECURSIVE InsertByScore_Ascending(_, _)
InsertByScore_Ascending(sorted, item) ==
    IF sorted = <<>> THEN <<item>>
    ELSE IF Head(sorted).relevanceScore <= item.relevanceScore
         THEN <<Head(sorted)>> \o InsertByScore_Ascending(Tail(sorted), item)
         ELSE <<item>> \o sorted

RECURSIVE SortByScoreDesc_Ascending(_)
SortByScoreDesc_Ascending(items) ==
    IF items = <<>> THEN <<>>
    ELSE InsertByScore_Ascending(
             SortByScoreDesc_Ascending(SubSeq(items, 1, Len(items) - 1)),
             items[Len(items)])

RECURSIVE SortByScoreDesc(_)
SortByScoreDesc(items) ==
    IF items = <<>> THEN <<>>
    ELSE InsertByScore(SortByScoreDesc(SubSeq(items, 1, Len(items) - 1)),
                       items[Len(items)])

\* the loop of deduplicateBySimilarity over the sorted list
RECURSIVE KeepDissimilar(_, _)
KeepDissimilar(sorted, kept) ==
    IF sorted = <<>> THEN kept
    ELSE LET item == Head(sorted)
             isDuplicate == \E idx \in 1..Len(kept) :
                                areSimilar(item.title, kept[idx].title)
         IN  KeepDissimilar(Tail(sorted),
                            IF isDuplicate THEN kept ELSE Append(kept, item))

\* Bug-shaped variant: each item is compared with the last kept item only.
RECURSIVE KeepDissimilar_LastOnly(_, _)
KeepDissimilar_LastOnly(sorted, kept) ==
    IF sorted = <<>> THEN kept
    ELSE LET item == Head(sorted)
             isDuplicate == /\ kept # <<>>
                            /\ areSimilar(item.title, kept[Len(kept)].title)
         IN  KeepDissimilar_LastOnly(Tail(sorted),
                            IF isDuplicate THEN kept ELSE Append(kept, item))

deduplicateBySimilarity_LastOnly(items) ==
    IF items = <<>> THEN <<>>
    ELSE KeepDissimilar_LastOnly(SortByScoreDesc(items), <<>>)

deduplicateBySimilarity(items) ==
    IF items = <<>> THEN <<>>
    ELSE KeepDissimilar(SortByScoreDesc(items), <<>>)

\* Bug-shaped variant: the final pass with the thresholds 0.4 / 0.7 /
\* (0.3 and 0.55), above those of the early pass.
FinalDuplicate_Higher(words, existingWords) ==
    LET jaccard == jaccardSimilarity(words, existingWords)
        overlap == overlapCoefficient(words, existingWords)
    IN  \/ RatioGeq(jaccard, 40)
        \/ RatioGeq(overlap, 70)
        \/ RatioGeq(jaccard, 30) /\ RatioGeq(overlap, 55)

\* the predicate inside finalDedup's result.some(...)
FinalDuplicate(words, existingWords) ==
    LET jaccard == jaccardSimilarity(words, existingWords)
        overlap == overlapCoefficient(words, existingWords)
    IN  \/ RatioGeq(jaccard, 30)
        \/ RatioGeq(overlap, 60)
        \/ RatioGeq(jaccard, 20) /\ RatioGeq(overlap, 45)

RECURSIVE FinalLoop(_, _)
FinalLoop(items, result) ==
    IF items = <<>> THEN result
    ELSE LET item == Head(items)
             words == extractSignificantWords(item.title)
             isDuplicate == \E idx \in 1..Len(result) :
                 FinalDuplicate(words, extractSignificantWords(result[idx].title))
         IN  FinalLoop(Tail(items),
                       IF isDuplicate THEN result ELSE Append(result, item))

\* Bug-shaped variant: each item is compared with the last kept item only.
RECURSIVE FinalLoop_LastOnly(_, _)
FinalLoop_LastOnly(items, result) ==
    IF items = <<>> THEN result
    ELSE LET item == Head(items)
             words == extractSignificantWords(item.title)
             isDuplicate ==
                 /\ result # <<>>
                 /\ FinalDuplicate(words,
                        extractSignificantWords(result[Len(result)].title))
         IN  FinalLoop_LastOnly(Tail(items),
                       IF isDuplicate THEN result ELSE Append(result, item))

\* Bug-shaped variant: the list is re-sorted by score, as the early pass does.
finalDedup_SortFirst(items) ==
    IF items = <<>> THEN <<>> ELSE FinalLoop(SortByScoreDesc(items), <<>>)

finalDedup_LastOnly(items) ==
    IF items = <<>> THEN <<>> ELSE FinalLoop_LastOnly(items, <<>>)

finalDedup(items) ==
    IF items = <<>> THEN <<>> ELSE FinalLoop(items, <<>>)

(***************************************************************************)
(* relevance: extractKeywords / computeCrossFeedScores                     *)
(***************************************************************************)
STOP_WORDS ==
    { "a", "an", "the", "is", "are", "was", "were", "be", "been", "being",
      "have", "has", "had", "do", "does", "did", "will", "would", "could",
      "should", "may", "might", "shall", "can", "need", "dare", "ought",
      "used", "to", "of", "in", "for", "on", "with", "at", "by", "from",
      "as", "into", "through", "during", "before", "after", "above", "below",
      "between", "out", "off", "over", "under", "again", "further", "then",
      "once", "and", "but", "or", "nor", "not", "so", "yet", "both",
      "either", "neither", "each", "every", "all", "any", "few", "more",
      "most", "other", "some", "such", "no", "only", "own", "same", "than",
      "too", "very", "just", "because", "about", "up", "it", "its", "this",
      "that", "these", "those", "he", "she", "they", "we", "you", "i", "me",
      "my", "your", "his", "her", "their", "our", "what", "which", "who",
      "when", "where", "why", "how", "if", "while", "new", "says", "said",
      "de", "da", "dos", "das", "em", "na", "nos", "nas",
      "um", "uma", "uns", "umas", "por", "para", "com", "sem", "sob",
      "sobre", "entre", "que", "se", "mais", "mas", "como", "seu", "sua",
      "seus", "suas", "ele", "ela", "eles", "elas", "isso", "isto",
      "aquilo", "este", "esta", "esse", "essa", "já", "ainda", "também",
      "foi", "ser", "ter", "está", "são", "tem", "vai", "pode", "diz",
      "após", "ano", "dia", "vez", "até", "não", "há" }

IsKeyword(w) == Len(w) > 2 /\ w \notin STOP_WORDS

\* toLowerCase, replace and split(/\s+/) act on each raw token as in
\* normalizeTitle; empty pieces have length 0 and are filtered out.
extractKeywords(text) ==
    SelectSeq(Flatten([i \in 1..Len(text) |-> NormToken(text[i])]), IsKeyword)

\* kwB.filter((w) => kwA.has(w)).length: kwB is an array, kwA a Set
OverlapCount(kwA, kwB) == Len(SelectSeq(kwB, LAMBDA w : w \in kwA))

\* similarity = kwA.size > 0 ? overlap / kwA.size : 0
CrossSimilarity(kwA, kwB) ==
    LET overlap == OverlapCount(kwA, kwB)
    IN  IF Cardinality(kwA) > 0
        THEN [num |-> overlap, den |-> Cardinality(kwA)]
        ELSE Zero

\* similarity >= 0.4
CrossMatch(kwA, kwB) == RatioGeq(CrossSimilarity(kwA, kwB), 40)

\* the inner loop over j of computeCrossFeedScores, from j on
RECURSIVE CrossLoop(_, _, _, _, _)
CrossLoop(items, i, j, matchedSources, crossCount) ==
    IF j > Len(items) THEN crossCount
    ELSE IF i = j \/ items[j].source = items[i].source
              \/ items[j].source \in matchedSources
         THEN CrossLoop(items, i, j + 1, matchedSources, crossCount)
         ELSE IF CrossMatch(Range(extractKeywords(items[i].title)),
                            extractKeywords(items[j].title))
              THEN CrossLoop(items, i, j + 1,
                             matchedSources \cup {items[j].source}, crossCount + 1)
              ELSE CrossLoop(items, i, j + 1, matchedSources, crossCount)

CrossFeedPoints(crossCount) ==
    IF crossCount >= 3 THEN 50
    ELSE IF crossCount >= 2 THEN 40
    ELSE IF crossCount >= 1 THEN 30
    ELSE 0

computeCrossFeedScores(items) ==
    [i \in 1..Len(items) |->
        CrossFeedPoints(CrossLoop(items, i, 1, {items[i].source}, 0))]

\* the value of `similarity` for every pair (i, j) the inner loop may test
PairSimilarities(items) ==
    [i \in 1..Len(items) |-> [j \in 1..Len(items) |->
        CrossSimilarity(Range(extractKeywords(items[i].title)),
                        extractKeywords(items[j].title))]]

(***************************************************************************)
(* relevance: computeRecencyScores, ages in tenths of an hour              *)
(***************************************************************************)
TenthsPerDay == 240
MaxRecency == 20

\* Math.round of the ratio num/den, den > 0: floor(x + 0.5)
RoundRatio(num, den) == (2 * num + den) \div (2 * den)

\* Bug-shaped variant: the score is not clamped at 0.
recencyScore_NoClamp(ageTenths) ==
    RoundRatio(MaxRecency * (TenthsPerDay - ageTenths), TenthsPerDay)

\* Math.round(Math.max(0, 20 * (1 - ageHours / 24)))
recencyScore(ageTenths) ==
    LET num == MaxRecency * (TenthsPerDay - ageTenths)
    IN  IF num <= 0 THEN 0 ELSE RoundRatio(num, TenthsPerDay)

(***************************************************************************)
(* relevance: computeTrendingScores                                        *)
(***************************************************************************)
\* [...new Set(extractKeywords(item.title + ' ' + item.description))]
ItemKeywords(item) == Range(extractKeywords(item.title \o item.description))

\* Bug-shaped variant: every occurrence counts, also inside one item.
KeywordFreq_Occurrences(items, kw) ==
    Len(SelectSeq(
            Flatten([i \in 1..Len(items) |->
                        extractKeywords(items[i].title \o items[i].description)]),
            LAMBDA w : w = kw))

\* keywordFreq.get(kw): the number of items whose keyword set holds kw
KeywordFreq(items, kw) ==
    Cardinality({ i \in 1..Len(items) : kw \in ItemKeywords(items[i]) })

\* keywords that appear in 3+ different articles
TrendingKeywords(items) ==
    { kw \in UNION { ItemKeywords(items[i]) : i \in 1..Len(items) } :
        KeywordFreq(items, kw) >= 3 }

computeTrendingScores(items) ==
    LET trendingKeywords == TrendingKeywords(items)
    IN  [i \in 1..Len(items) |->
            Min(Cardinality(ItemKeywords(items[i]) \cap trendingKeywords) * 5, 30)]

\* computeRecencyScores with Date.now() = now, times in tenths of an hour
computeRecencyScores(items, now) ==
    [i \in 1..Len(items) |-> recencyScore(now - items[i].publishedAt)]

(***************************************************************************)
(* relevance: checkHackerNews / checkReddit / getSocialScore               *)
(* A provider response is [ok, hits]: ok = FALSE when axios.get throws     *)
(* (network error, timeout, bad status); hits are [score, comments].       *)
(***************************************************************************)
RECURSIVE BestHit(_, _)
BestHit(hits, best) ==
    IF hits = <<>> THEN best
    ELSE BestHit(Tail(hits),
                 IF Head(hits).score > best.score THEN Head(hits) ELSE best)

NoHit == [score |-> 0, comments |-> 0]

\* Bug-shaped variant: the catch block is missing, so the promise of a
\* failed call rejects.
checkProvider_NoCatch(response) ==
    IF response.ok
    THEN [status |-> "fulfilled", value |-> BestHit(response.hits, NoHit)]
    ELSE [status |-> "rejected", value |-> NoHit]

\* checkHackerNews and checkReddit have the same shape; the result is the
\* settled promise: the catch block turns every failure into {0, 0}
checkProvider(response) ==
    IF response.ok
    THEN [status |-> "fulfilled", value |-> BestHit(response.hits, NoHit)]
    ELSE [status |-> "fulfilled", value |-> NoHit]

SocialCap == 50

\* Bug-shaped variant: the raw total is not capped.
getSocialScore_NoCap(hn, reddit) ==
    hn.score + hn.comments * 2 + reddit.score + reddit.comments * 2

getSocialScore(hn, reddit) ==
    Min(hn.score + hn.comments * 2 + reddit.score + reddit.comments * 2,
        SocialCap)

\* the settled promise of `async (c) => ({ index, score: await
\* getSocialScore(c.item.link) })`: Promise.all rejects when a provider
\* promise rejects
LookupResult(hn, reddit) ==
    IF hn.status = "fulfilled" /\ reddit.status = "fulfilled"
    THEN [status |-> "fulfilled", score |-> getSocialScore(hn.value, reddit.value)]
    ELSE [status |-> "rejected", score |-> 0]

(***************************************************************************)
(* relevance: computeRelevance, the synchronous parts                      *)
(***************************************************************************)
TopCandidates == 20
BatchSize == 5

\* preScored.sort((a, b) => b.localScore - a.localScore), stable
RECURSIVE InsertByLocalScore(_, _)
InsertByLocalScore(sorted, c) ==
    IF sorted = <<>> THEN <<c>>
    ELSE IF Head(sorted).localScore >= c.localScore
         THEN <<Head(sorted)>> \o InsertByLocalScore(Tail(sorted), c)
         ELSE <<c>> \o sorted

RECURSIVE SortByLocalScore(_)
SortByLocalScore(preScored) ==
    IF preScored = <<>> THEN <<>>
    ELSE InsertByLocalScore(
             SortByLocalScore(SubSeq(preScored, 1, Len(preScored) - 1)),
             preScored[Len(preScored)])

\* the local scores of every item: crossFeed, trending, recency
LocalScores(items, now) ==
    LET crossFeed == computeCrossFeedScores(items)
        trending == computeTrendingScores(items)
        recency == computeRecencyScores(items, now)
    IN  [i \in 1..Len(items) |->
            [crossFeed |-> crossFeed[i], trending |-> trending[i],
             recency |-> recency[i]]]

\* Bug-shaped variant: the candidates are taken in input order.
topCandidatesOf_Unsorted(local) ==
    LET preScored == [i \in 1..Len(local) |->
            [index |-> i,
             localScore |-> local[i].crossFeed + local[i].trending
                                + local[i].recency]]
    IN  SubSeq(preScored, 1, Min(Len(preScored), TopCandidates))

\* preScored, sorted, sliced: the candidates [index, localScore]
topCandidatesOf(local) ==
    LET preScored == [i \in 1..Len(local) |->
            [index |-> i,
             localScore |-> local[i].crossFeed + local[i].trending
                                + local[i].recency]]
    IN  SubSeq(SortByLocalScore(preScored), 1, Min(Len(preScored), TopCandidates))

\* Bug-shaped variant: the total leaves the social score out.
Enrich_NoSocial(item, loc, sc) ==
    [item EXCEPT
        !.relevanceScore = loc.crossFeed + loc.trending + loc.recency + sc,
        !.scoreBreakdown =
            [crossFeedScore |-> loc.crossFeed, trendingScore |-> loc.trending,
             recencyScore |-> loc.recency, socialScore |-> sc,
             totalScore |-> loc.crossFeed + loc.trending + loc.recency]]

\* the callback of items.map that builds `enriched`
Enrich(item, loc, sc) ==
    LET total == loc.crossFeed + loc.trending + loc.recency + sc
    IN  [item EXCEPT
            !.relevanceScore = total,
            !.scoreBreakdown =
                [crossFeedScore |-> loc.crossFeed, trendingScore |-> loc.trending,
                 recencyScore |-> loc.recency, socialScore |-> sc,
                 totalScore |-> total]]

\* socialScores.get(i) || 0
SocialOf(socialScores, i) ==
    IF i \in DOMAIN socialScores THEN socialScores[i] ELSE 0

\* `enriched` as returned: the log statement sorts it in place
EnrichAll(items, local, socialScores) ==
    SortByScoreDesc([i \in 1..Len(items) |->
        Enrich(items[i], local[i], SocialOf(socialScores, i))])

(***************************************************************************)
(* money: extractKeywords / scoreMoneyItems (its own stop-word list)       *)
(***************************************************************************)
MONEY_STOP_WORDS ==
    { "a", "an", "the", "is", "are", "was", "were", "be", "been", "have", "has",
      "had", "do", "does", "did", "will", "would", "could", "should", "to", "of",
      "in", "for", "on", "with", "at", "by", "from", "as", "and", "but", "or",
      "not", "so", "yet", "it", "its", "this", "that", "he", "she", "they", "we",
      "you", "my", "your", "his", "her", "their", "our", "what", "which", "who",
      "how", "if", "new", "says", "said", "just", "about", "more", "than", "up",
      "de", "da", "dos", "das", "em", "no", "na", "nos", "nas", "um", "uma",
      "por", "para", "com", "sem", "que", "se", "mais", "mas", "como", "seu", "sua",
      "foi", "ser", "ter", "está", "são", "tem", "vai", "pode", "diz", "após",
      "ano", "dia", "vez", "até", "não", "há", "sobre", "entre" }

IsMoneyKeyword(w) == Len(w) > 2 /\ w \notin MONEY_STOP_WORDS

moneyExtractKeywords(text) ==
    SelectSeq(Flatten([i \in 1..Len(text) |-> NormToken(text[i])]), IsMoneyKeyword)

\* step 1 of scoreMoneyItems: the inner loop over j, from j on
RECURSIVE MoneyCrossLoop(_, _, _, _, _)
MoneyCrossLoop(items, i, j, matchedSources, crossCount) ==
    IF j > Len(items) THEN crossCount
    ELSE IF i = j \/ items[j].source \in matchedSources
         THEN MoneyCrossLoop(items, i, j + 1, matchedSources, crossCount)
         ELSE IF CrossMatch(Range(moneyExtractKeywords(items[i].title)),
                            moneyExtractKeywords(items[j].title))
              THEN MoneyCrossLoop(items, i, j + 1,
                                  matchedSources \cup {items[j].source},
                                  crossCount + 1)
              ELSE MoneyCrossLoop(items, i, j + 1, matchedSources, crossCount)

MoneyItemKeywords(item) ==
    Range(moneyExtractKeywords(item.title \o item.description))

\* step 2 of scoreMoneyItems: `trending`
MoneyTrending(items) ==
    { kw \in UNION { MoneyItemKeywords(items[i]) : i \in 1..Len(items) } :
        Cardinality({ i \in 1..Len(items) : kw \in MoneyItemKeywords(items[i]) }) >= 3 }

\* step 2 of scoreMoneyItems: trendingScore of every item
MoneyTrendingScores(items) ==
    LET trending == MoneyTrending(items)
    IN  [i \in 1..Len(items) |->
            Min(Cardinality(MoneyItemKeywords(items[i]) \cap trending) * 5, 30)]

\* Bug-shaped variant: relevanceScore is set before the total is recomputed.
MoneyTotal_Stale(item, cf, tr, rc) ==
    [item EXCEPT
        !.relevanceScore = item.scoreBreakdown.totalScore,
        !.scoreBreakdown =
            [crossFeedScore |-> cf, trendingScore |-> tr, recencyScore |-> rc,
             socialScore |-> item.scoreBreakdown.socialScore,
             totalScore |-> cf + tr + rc + item.scoreBreakdown.socialScore]]

\* steps 1-3 write the three sub-scores, the last loop the total
MoneyTotal(item, cf, tr, rc) ==
    LET total == cf + tr + rc + item.scoreBreakdown.socialScore
    IN  [item EXCEPT
            !.relevanceScore = total,
            !.scoreBreakdown =
                [crossFeedScore |-> cf, trendingScore |-> tr, recencyScore |-> rc,
                 socialScore |-> item.scoreBreakdown.socialScore,
                 totalScore |-> total]]

\* scoreMoneyItems with Date.now() = now, times in tenths of an hour
scoreMoneyItems(items, now) ==
    LET trending == MoneyTrendingScores(items)
    IN  [i \in 1..Len(items) |->
            MoneyTotal(items[i],
                CrossFeedPoints(MoneyCrossLoop(items, i, 1, {items[i].source}, 0)),
                trending[i],
                recencyScore(now - items[i].publishedAt))]

(***************************************************************************)
(* ranker: loadSentCache / saveSentCache / normalizeUrl                    *)
(***************************************************************************)
RetentionHours == 48
MaxPerSource == 3
NewsMaxAgeHours == 24
MaxNewsPerSend == 10
TopOfDayHours == 24

\* fs.existsSync false: no record yet
NoStore == [exists |-> FALSE, urls |-> {}, timestamp |-> 0]

\* readOk = FALSE: readFileSync or JSON.parse throws and the catch returns
\* the empty set.
loadSentCache_LongerRetention(st, now, readOk) ==
    IF st.exists /\ readOk
    THEN IF now - st.timestamp > RetentionHours + 1 THEN {} ELSE st.urls
    ELSE {}

\* Bug-shaped variant: the outcome of the read is not looked at.
loadSentCache_IgnoreReadError(st, now, readOk) ==
    IF st.exists
    THEN IF now - st.timestamp > RetentionHours THEN {} ELSE st.urls
    ELSE {}

loadSentCache(st, now, readOk) ==
    IF st.exists /\ readOk
    THEN IF now - st.timestamp > RetentionHours THEN {} ELSE st.urls
    ELSE {}

\* Bug-shaped variant: the record keeps the timestamp it had.
saveSentCache_KeepTimestamp(st, urls, now, writeOk) ==
    IF writeOk THEN [exists |-> TRUE, urls |-> urls, timestamp |-> st.timestamp]
    ELSE st

\* writeOk = FALSE: writeFileSync throws and the catch swallows it.
saveSentCache(st, urls, now, writeOk) ==
    IF writeOk THEN [exists |-> TRUE, urls |-> urls, timestamp |-> now] ELSE st

LowerChar(c) == CASE c = "A" -> "a" [] c = "B" -> "b" [] OTHER -> c

RECURSIVE StripTrailingSlashes(_)
StripTrailingSlashes(url) ==
    IF url # <<>> /\ url[Len(url)] = "/"
    THEN StripTrailingSlashes(SubSeq(url, 1, Len(url) - 1))
    ELSE url

normalizeUrl(url) ==
    LET stripped == StripTrailingSlashes(url)
    IN  [i \in 1..Len(stripped) |-> LowerChar(stripped[i])]

(***************************************************************************)
(* ranker: diversifiedPick / rankNews / getTopOfDay                        *)
(***************************************************************************)
SourceCount(result, source) ==
    Cardinality({ i \in 1..Len(result) : result[i].source = source })

RECURSIVE PickLoop(_, _, _, _)
PickLoop(sorted, maxItems, maxPerSource, result) ==
    IF sorted = <<>> \/ Len(result) >= maxItems THEN result
    ELSE LET item == Head(sorted)
         IN  IF SourceCount(result, item.source) >= maxPerSource
             THEN PickLoop(Tail(sorted), maxItems, maxPerSource, result)
             ELSE PickLoop(Tail(sorted), maxItems, maxPerSource,
                           Append(result, item))

\* Bug-shaped variant: sourceCount is never updated, so no source is capped.
diversifiedPick_NoCount(sorted, maxItems, maxPerSource) ==
    SubSeq(sorted, 1, Min(Len(sorted), maxItems))

diversifiedPick(sorted, maxItems, maxPerSource) ==
    PickLoop(sorted, maxItems, maxPerSource, <<>>)

\* Bug-shaped variant: the sent cache is not consulted.
Eligible_IgnoreSent(item, sentCache, now, maxAgeHours) ==
    /\ ~(now - item.publishedAt > maxAgeHours)
    /\ item.link # <<>>

\* Bug-shaped variant: the sent cache is probed with the raw link.
Eligible_RawLink(item, sentCache, now, maxAgeHours) ==
    /\ item.link \notin sentCache
    /\ ~(now - item.publishedAt > maxAgeHours)
    /\ item.link # <<>>

\* the callback of items.filter in rankNews
Eligible(item, sentCache, now, maxAgeHours) ==
    /\ normalizeUrl(item.link) \notin sentCache
    /\ ~(now - item.publishedAt > maxAgeHours)
    /\ item.link # <<>>

\* rankNews between loadSentCache and the "mark as sent" loop
rankNews(items, maxItems, maxAgeHours, now, sentCache) ==
    LET filtered == SelectSeq(items,
                        LAMBDA item : Eligible(item, sentCache, now, maxAgeHours))
        unique == deduplicateBySimilarity(filtered)
        sorted == SortByScoreDesc(unique)
    IN  diversifiedPick(sorted, maxItems, MaxPerSource)

\* Bug-shaped variant: the read-only query filters by the sent cache too.
getTopOfDay_SkipDelivered(items, count, now) ==
    rankNews(items, count, TopOfDayHours, now, loadSentCache(store, now, TRUE))

getTopOfDay(items, count, now) ==
    LET last24h == SelectSeq(items,
                        LAMBDA item : /\ now - item.publishedAt <= TopOfDayHours
                                      /\ item.link # <<>>)
        unique == deduplicateBySimilarity(last24h)
        sorted == SortByScoreDesc(unique)
    IN  diversifiedPick(sorted, count, MaxPerSource)

CanonSet(items) == { normalizeUrl(items[i].link) : i \in 1..Len(items) }

(***************************************************************************)
(* State of the ranker machine before any call; the specifications of the *)
(* pure functions keep it there.                                           *)
(***************************************************************************)
NoCall == [op |-> "none"]

\* the documents a rankNews call may be given: [title, link, source, age, score]
RankDocs ==
    << [title |-> <<"Trump", "tariffs,", "China's">>, link |-> <<"a">>,
        source |-> "s1", age |-> 0, relevanceScore |-> 2],
       [title |-> <<"imports", "imports", "imports">>, link |-> <<"A", "/">>,
        source |-> "s2", age |-> 1, relevanceScore |-> 1],
       [title |-> <<"announces", "announces", "announces">>, link |-> <<"b">>,
        source |-> "s1", age |-> 0, relevanceScore |-> 1] >>

\* no computeRelevance call in progress
RelIdle ==
    [pc |-> "idle", local |-> <<>>, top |-> <<>>, i |-> 0, pending |-> {},
     results |-> <<>>, socialScores |-> <<>>, launched |-> {},
     enriched |-> <<>>, overtaken |-> FALSE]

\* a command handler that has not been invoked
RunIdle ==
    [kind |-> "none", pc |-> "idle", outcome |-> "none", outstanding |-> "none",
     recent |-> <<>>, clean |-> <<>>, ranked |-> FALSE, marked |-> {},
     returned |-> {}]

\* no bot process has been started and there is no .bot.pid file; `file` is
\* the PID the file holds, 0 when the file does not exist
LockIdle ==
    [pc |-> [p \in 1..MaxProcs |-> "off"], file |-> 0, order |-> <<>>,
     oldPid |-> [p \in 1..MaxProcs |-> 0], removedOther |-> FALSE]

\* runner.js
MIN_RESTART_DELAY == 3000
MAX_RESTART_DELAY == 60000
BACKOFF_MULTIPLIER == 2
MAX_CRASHES_IN_WINDOW == 5

\* the supervisor before `node runner.js`: its globals as declared, no child
\* spawned, no timer set.  child[c] is "none", "alive", "failed" (the spawn
\* failed and 'error' is about to be emitted), "errored" ('error' was
\* emitted for the failed spawn) or "ended"; crashes is
\* crashTimestamps.length, counted up to MAX_CRASHES_IN_WINDOW; timers is
\* the number of pending setTimeout(startBot, ...); scheduled[c] lists the
\* delays of the restarts that the handlers of child c have scheduled
SupIdle ==
    [pc |-> "off", isQuitting |-> FALSE, currentDelay |-> MIN_RESTART_DELAY,
     crashes |-> 0, botProcess |-> 0, killed |-> FALSE,
     child |-> [c \in 1..MaxChildren |-> "none"],
     timers |-> 0, quitTimer |-> FALSE,
     scheduled |-> [c \in 1..MaxChildren |-> <<>>],
     spawnedOver |-> FALSE, spawnedAfterQuit |-> FALSE]

\* index.ts
MAX_POLLING_ERRORS == 10

\* the bot process before startBot(): polling is "active" (getUpdates
\* requests are issued), "stopping" (stopPolling was called and the last
\* request is still in flight) or "stopped"; awaiting is the number of
\* restartPolling calls at `await stopPolling()`, timers the delays of the
\* pending restart callbacks, retries the number of pending 30 s timers;
\* startsSinceStop counts the startPolling calls since the last stopPolling
PollIdle ==
    [pc |-> "off", polling |-> "stopped", isShuttingDown |-> FALSE,
     pollingErrorCount |-> 0, awaiting |-> 0, timers |-> <<>>, retries |-> 0,
     startsSinceStop |-> 0, startedAfterShutdown |-> FALSE]

ProcIdle ==
    /\ lock = LockIdle
    /\ sup = SupIdle
    /\ poll = PollIdle

RankIdle ==
    /\ rel = RelIdle
    /\ runs = [r \in 1..MaxRuns |-> RunIdle]
    /\ clock = 0
    /\ store = NoStore
    /\ call = NoCall
    /\ deliveredAt = <<>>
    /\ returnedBefore = {}
    /\ allOk = TRUE
    /\ ncalls = 0

(***************************************************************************)
(* Inputs of the pure-function specifications.                             *)
(***************************************************************************)
TitleTrumpShort == <<"Trump", "tariffs">>
TitleTrumpLong ==
    <<"Trump", "announces", "new", "tariffs", "on", "China", "imports">>

SimVocabulary == { "Trump", "tariffs,", "China's", "new" }

TitleNoKeywords == <<"It", "is", "what", "it", "is">>

SimTitles ==
    SeqsUpTo(SimVocabulary, MaxTitleLen)
        \cup { TitleTrumpShort, TitleTrumpLong, TitleNoKeywords }

DedupTitles ==
    << <<"Trump", "tariffs,", "China's">>,
       <<"Trump", "tariffs,", "tariffs,">>,
       <<"China's", "China's", "China's">>,
       <<"Trump">>,
       TitleNoKeywords >>

Letters == <<"a", "b", "c", "d", "e", "f">>

\* the i-th document of a list: its link tells the positions apart
Doc(i, title, source, score) ==
    [title |-> title, link |-> <<Letters[i]>>, source |-> source,
     publishedAt |-> 0, relevanceScore |-> score]

DedupInputs(maxLen) ==
    UNION { { [i \in 1..k |-> Doc(i, DedupTitles[t[i]], "s1", s[i])] :
                t \in [1..k -> 1..Len(DedupTitles)], s \in [1..k -> 1..MaxScore] } :
            k \in 0..maxLen }

(***************************************************************************)
(* SpecSim: areSimilar and the final-pass predicate on a pair of titles.   *)
(***************************************************************************)
InitSim ==
    /\ RankIdle
    /\ ProcIdle
    /\ input \in { [a |-> x, b |-> y] : x \in SimTitles, y \in SimTitles }
    /\ output = <<>>
    /\ phase = "ready"

CompareTitles ==
    /\ phase = "ready"
    /\ phase' = "done"
    /\ output' = [similar |-> areSimilar(input.a, input.b),
                  finalDup |-> FinalDuplicate(extractSignificantWords(input.a),
                                              extractSignificantWords(input.b))]
    /\ UNCHANGED <<input, rankVars, runVars, procVars>>

NextSim == CompareTitles

SpecSim == InitSim /\ [][NextSim]_vars

(***************************************************************************)
(* SpecDedup: each deduplicator run on a list, then again on its output.   *)
(***************************************************************************)
InitDedup ==
    /\ RankIdle
    /\ ProcIdle
    /\ input \in { [items |-> x] : x \in DedupInputs(MaxDedupLen) }
    /\ output = <<>>
    /\ phase = "ready"

DedupFirstPass ==
    /\ phase = "ready"
    /\ phase' = "once"
    /\ output' = [early |-> deduplicateBySimilarity(input.items),
                  final |-> finalDedup(input.items)]
    /\ UNCHANGED <<input, rankVars, runVars, procVars>>

DedupSecondPass ==
    /\ phase = "once"
    /\ phase' = "twice"
    /\ output' = [early |-> output.early,
                  final |-> output.final,
                  earlyAgain |-> deduplicateBySimilarity(output.early),
                  finalAgain |-> finalDedup(output.final)]
    /\ UNCHANGED <<input, rankVars, runVars, procVars>>

NextDedup == DedupFirstPass \/ DedupSecondPass

SpecDedup == InitDedup /\ [][NextDedup]_vars

(***************************************************************************)
(* SpecPick, SpecE2E: rankNews (on an empty sent cache) and getTopOfDay    *)
(* applied to one list of documents at time 0.                             *)
(***************************************************************************)
\* pairwise unrelated titles, one per position of a list
PickTitles ==
    << <<"trump", "trump", "trump">>, <<"tariffs", "tariffs", "tariffs">>,
       <<"china", "china", "china">>, <<"imports", "imports", "imports">>,
       <<"announces", "announces", "announces">>,
       <<"markets", "markets", "markets">> >>

\* what a position of the list may hold: a fresh document, one three hours
\* old, or one without a link
PickKinds ==
    { [age |-> 0, linked |-> TRUE], [age |-> 3, linked |-> TRUE],
      [age |-> 0, linked |-> FALSE] }

PickDoc(i, source, kind) ==
    [title |-> PickTitles[i],
     link |-> IF kind.linked THEN <<Letters[i]>> ELSE <<>>,
     source |-> source,
     publishedAt |-> 0 - kind.age,
     relevanceScore |-> 1 + (i % 2)]

PickInputs(maxLen) ==
    UNION { { [i \in 1..k |-> PickDoc(i, src[i], kind[i])] :
                src \in [1..k -> {"s1", "s2"}], kind \in [1..k -> PickKinds] } :
            k \in 0..maxLen }

InitPick ==
    /\ RankIdle
    /\ ProcIdle
    /\ input \in { [items |-> x, maxItems |-> m, maxAgeHours |-> h] :
                     x \in PickInputs(MaxPickLen), m \in 0..MaxPickLen,
                     h \in {2, NewsMaxAgeHours} }
    /\ output = <<>>
    /\ phase = "ready"

ApplyRanker ==
    /\ phase = "ready"
    /\ phase' = "done"
    /\ output' = [ranked |-> rankNews(input.items, input.maxItems,
                                      input.maxAgeHours, 0, {}),
                  top |-> getTopOfDay(input.items, input.maxItems, 0)]
    /\ UNCHANGED <<input, rankVars, runVars, procVars>>

NextRanker == ApplyRanker

SpecPick == InitPick /\ [][NextRanker]_vars

\* End to end: three documents of three sources and a fourth with a title
\* sharing no word with theirs, in any position of the list.
ClusterTitles ==
    { <<"Trump", "tariffs,", "China's">>,
      <<"Trump", "tariffs,", "China's", "imports">>,
      <<"Trump", "tariffs,", "imports">>,
      <<"Trump", "tariffs,">>,
      <<"Trump">>,
      <<"markets", "markets", "markets">> }

UnrelatedTitle == <<"announces", "announces", "announces">>

E2EDoc(i, title, source, score) ==
    [title |-> title, link |-> <<Letters[i]>>, source |-> source,
     publishedAt |-> 0, relevanceScore |-> score]

\* the list with `doc` inserted at position p
InsertAt(list, p, doc) ==
    SubSeq(list, 1, p - 1) \o <<doc>> \o SubSeq(list, p, Len(list))

E2EInputs(maxScore) ==
    { InsertAt([i \in 1..3 |-> E2EDoc(i, t[i], <<"s1", "s2", "s3">>[i], s[i])],
               p, E2EDoc(4, UnrelatedTitle, "s1", su)) :
        t \in [1..3 -> ClusterTitles], s \in [1..3 -> 1..maxScore],
        p \in 1..4, su \in 1..maxScore }

InitE2E ==
    /\ RankIdle
    /\ ProcIdle
    /\ input \in { [items |-> x, maxItems |-> MaxNewsPerSend,
                    maxAgeHours |-> NewsMaxAgeHours] : x \in E2EInputs(MaxScore) }
    /\ output = <<>>
    /\ phase = "ready"

SpecE2E == InitE2E /\ [][NextRanker]_vars

(***************************************************************************)
(* SpecRecency: the recency score of a younger and of an older document.   *)
(***************************************************************************)
InitRecency ==
    /\ RankIdle
    /\ ProcIdle
    /\ input \in { [younger |-> a, older |-> b] :
                     a \in 0..MaxAgeTenths, b \in 0..MaxAgeTenths }
    /\ input.younger < input.older
    /\ output = <<>>
    /\ phase = "ready"

ScoreRecency ==
    /\ phase = "ready"
    /\ phase' = "done"
    /\ output' = [younger |-> recencyScore(input.younger),
                  older |-> recencyScore(input.older)]
    /\ UNCHANGED <<input, rankVars, runVars, procVars>>

NextRecency == ScoreRecency

SpecRecency == InitRecency /\ [][NextRecency]_vars

(***************************************************************************)
(* SpecCross: the cross-feed scores of a list of documents.                *)
(***************************************************************************)
CrossTitles ==
    { <<"Trump", "tariffs,", "China's">>,
      <<"tariffs,", "tariffs,">>,
      <<"would", "new">> }

CrossSources == <<"s1", "s2", "s3", "s4">>

\* the k-th document of a list comes from one of the first k sources
CrossInputs(maxLen) ==
    UNION { { [i \in 1..k |-> [title |-> t[i], source |-> CrossSources[src[i]]]] :
                t \in [1..k -> CrossTitles],
                src \in { f \in [1..k -> 1..Len(CrossSources)] :
                            \A i \in 1..k : f[i] <= i } } :
            k \in 0..maxLen }

InitCross ==
    /\ RankIdle
    /\ ProcIdle
    /\ input \in { [items |-> x] : x \in CrossInputs(MaxCrossLen) }
    /\ output = <<>>
    /\ phase = "ready"

ScoreCrossFeed ==
    /\ phase = "ready"
    /\ phase' = "done"
    /\ output' = [crossFeed |-> computeCrossFeedScores(input.items),
                  similarity |-> PairSimilarities(input.items)]
    /\ UNCHANGED <<input, rankVars, runVars, procVars>>

NextCross == ScoreCrossFeed

SpecCross == InitCross /\ [][NextCross]_vars

DEFAULT_BREAKDOWN ==
    [crossFeedScore |-> 0, trendingScore |-> 0, recencyScore |-> 0,
     socialScore |-> 0, totalScore |-> 0]

(***************************************************************************)
(* SpecTrending: the trending scores of a list of documents, as            *)
(* computeRelevance and scoreMoneyItems compute them.                      *)
(***************************************************************************)
\* title and description of a document: a keyword repeated inside one
\* document, seven keywords at once, no keyword at all, and a word ("may")
\* that only the money scorer takes for a keyword
TrendTexts ==
    { [title |-> <<"Trump", "rates">>, description |-> <<"rates", "rates">>],
      [title |-> <<"trump", "tariffs", "china", "imports", "markets", "stocks">>,
       description |-> <<"bonds", "may">>],
      [title |-> <<"would", "new">>, description |-> <<>>],
      [title |-> <<"China's", "may">>, description |-> <<"imports", "may">>] }

TrendInputs(maxLen) ==
    UNION { { [i \in 1..k |->
                 [title |-> t[i].title, description |-> t[i].description,
                  link |-> <<Letters[i]>>, source |-> "s1", publishedAt |-> 0,
                  relevanceScore |-> 0, scoreBreakdown |-> DEFAULT_BREAKDOWN]] :
                t \in [1..k -> TrendTexts] } :
            k \in 0..maxLen }

InitTrending ==
    /\ RankIdle
    /\ ProcIdle
    /\ input \in { [items |-> x] : x \in TrendInputs(MaxTrendLen) }
    /\ output = <<>>
    /\ phase = "ready"

ScoreTrending ==
    /\ phase = "ready"
    /\ phase' = "done"
    /\ output' =
          LET scored == scoreMoneyItems(input.items, 0)
          IN  [trending |-> computeTrendingScores(input.items),
               money |-> [i \in 1..Len(scored) |->
                            scored[i].scoreBreakdown.trendingScore]]
    /\ UNCHANGED <<input, rankVars, runVars, procVars>>

NextTrending == ScoreTrending

SpecTrending == InitTrending /\ [][NextTrending]_vars

(***************************************************************************)
(* SpecRelevance: one computeRelevance call.  The provider calls of a      *)
(* batch are in flight together and return in any order; what each         *)
(* provider answers for a link is fixed by the input.                      *)
(***************************************************************************)
MaxRelLen == 22

RelTitles ==
    << <<"Trump", "tariffs,", "China's">>, <<"tariffs,", "tariffs,">>,
       <<"markets", "markets", "markets">>, <<"would", "new">> >>

AgePatterns == { "fresh-first", "fresh-last", "equal" }

\* the k-th of n fetched documents, as fetchRSS builds it; ages in tenths
\* of an hour before now = 0
RelDoc(k, n, ages) ==
    [title |-> RelTitles[(k % 4) + 1],
     description |-> IF k % 5 = 0 THEN <<"imports">> ELSE <<>>,
     link |-> <<ToString(k)>>,
     source |-> CrossSources[(k % 3) + 1],
     publishedAt |-> CASE ages = "fresh-first" -> 0 - 10 * k
                       [] ages = "fresh-last" -> 0 - 10 * (n - k)
                       [] OTHER -> 0,
     relevanceScore |-> 0,
     scoreBreakdown |-> DEFAULT_BREAKDOWN]

RelItems(inp) == [k \in 1..inp.n |-> RelDoc(k, inp.n, inp.ages)]

\* what a provider answers for the k-th document
Response(inp, k, provider) ==
    [ok |-> ~(k = inp.failAt /\ provider \in inp.failWho),
     hits |-> IF provider = "hn"
              THEN CASE k % 3 = 1 -> << [score |-> 5, comments |-> 1],
                                        [score |-> 20, comments |-> 10] >>
                     [] k % 3 = 2 -> << [score |-> 3, comments |-> 0] >>
                     [] OTHER -> <<>>
              ELSE IF k % 2 = 1 THEN << [score |-> 30, comments |-> 2] >>
                   ELSE <<>>]

Providers == { "hn", "reddit" }

RelInputs ==
    { [n |-> n, ages |-> a, failAt |-> f, failWho |-> w] :
        n \in { 0, 1, 6, MaxRelLen - 1, MaxRelLen }, a \in AgePatterns,
        f \in { 0, 1, 4 }, w \in { {"hn"}, {"reddit"}, Providers } }

InitRelevance ==
    /\ RankIdle
    /\ ProcIdle
    /\ input \in { inp \in RelInputs :
                     /\ inp.failAt <= inp.n
                     /\ inp.failAt = 0 => inp.failWho = Providers }
    /\ output = <<>>
    /\ phase = "relevance"

\* Bug-shaped variant: the candidates are not sliced, every remaining
\* lookup is issued at once.
LaunchBatch_NoSlice(r, i) ==
    LET batch == (i + 1)..Len(r.top)
    IN  [r EXCEPT !.pc = "batch", !.i = i,
                  !.pending = { <<pos, p>> : pos \in batch, p \in Providers },
                  !.results = <<>>,
                  !.launched = @ \cup { r.top[pos].index : pos \in batch }]

\* batch.map(async (c) => ...): both provider calls of every candidate of
\* the batch starting at i are issued
LaunchBatch(r, i) ==
    LET batch == (i + 1)..Min(i + BatchSize, Len(r.top))
    IN  [r EXCEPT !.pc = "batch", !.i = i,
                  !.pending = { <<pos, p>> : pos \in batch, p \in Providers },
                  !.results = <<>>,
                  !.launched = @ \cup { r.top[pos].index : pos \in batch }]

\* computeRelevance up to its first await
StartRelevance ==
    /\ rel.pc = "idle"
    /\ LET items == RelItems(input)
           local == LocalScores(items, 0)
       IN  rel' = IF items = <<>>
                  THEN [rel EXCEPT !.pc = "done"]
                  ELSE LaunchBatch([rel EXCEPT !.local = local,
                                               !.top = topCandidatesOf(local)], 0)
    /\ UNCHANGED <<fnVars, procVars, rankVars, runs>>

\* Bug-shaped variant: only the lookup that settled last is recorded.
SetSocialScores_LastOnly(r, results) ==
    LET last == { c[1] : c \in r.pending }
        lookup(pos) == LookupResult(results[<<pos, "hn">>], results[<<pos, "reddit">>])
        fulfilled == { pos \in last : lookup(pos).status = "fulfilled" }
        scored == { r.top[pos].index : pos \in fulfilled }
    IN  [idx \in (DOMAIN r.socialScores) \cup scored |->
            IF idx \in scored
            THEN lookup(CHOOSE pos \in fulfilled : r.top[pos].index = idx).score
            ELSE r.socialScores[idx]]

\* the for loop over `results` after Promise.allSettled
SetSocialScores(r, results) ==
    LET batch == { c[1] : c \in DOMAIN results }
        lookup(pos) == LookupResult(results[<<pos, "hn">>], results[<<pos, "reddit">>])
        fulfilled == { pos \in batch : lookup(pos).status = "fulfilled" }
        scored == { r.top[pos].index : pos \in fulfilled }
    IN  [idx \in (DOMAIN r.socialScores) \cup scored |->
            IF idx \in scored
            THEN lookup(CHOOSE pos \in fulfilled : r.top[pos].index = idx).score
            ELSE r.socialScores[idx]]

\* one provider call returns; the last one of the batch resumes
\* computeRelevance, which records the scores and either starts the
\* inter-batch delay or builds `enriched` and returns
ProviderReturns(pos, provider) ==
    /\ rel.pc = "batch"
    /\ <<pos, provider>> \in rel.pending
    /\ LET res == checkProvider(Response(input, rel.top[pos].index, provider))
           pending == rel.pending \ { <<pos, provider>> }
           results == [c \in (DOMAIN rel.results) \cup { <<pos, provider>> } |->
                          IF c = <<pos, provider>> THEN res ELSE rel.results[c]]
           socialScores == SetSocialScores(rel, results)
           \* (history) a call returned before one of an earlier candidate
           overtaken == rel.overtaken \/ \E c \in pending : c[1] < pos
       IN  rel' =
             IF pending # {}
             THEN [rel EXCEPT !.pending = pending, !.results = results,
                              !.overtaken = overtaken]
             ELSE IF rel.i + BatchSize < Len(rel.top)
                  THEN [rel EXCEPT !.pc = "delay", !.pending = {}, !.results = <<>>,
                                   !.socialScores = socialScores,
                                   !.overtaken = overtaken]
                  ELSE [rel EXCEPT !.pc = "done", !.pending = {}, !.results = <<>>,
                                   !.socialScores = socialScores,
                                   !.overtaken = overtaken,
                                   !.enriched = EnrichAll(RelItems(input), rel.local,
                                                          socialScores)]
    /\ UNCHANGED <<fnVars, procVars, rankVars, runs>>

\* await delay(RATE_LIMIT_DELAY_MS * 2) is over: the next batch starts
DelayElapses ==
    /\ rel.pc = "delay"
    /\ rel' = LaunchBatch(rel, rel.i + BatchSize)
    /\ UNCHANGED <<fnVars, procVars, rankVars, runs>>

NextRelevance ==
    \/ StartRelevance
    \/ \E pos \in 1..TopCandidates, provider \in Providers :
          ProviderReturns(pos, provider)
    \/ DelayElapses

SpecRelevance == InitRelevance /\ [][NextRelevance]_vars

(***************************************************************************)
(* Spec: a sequence of rankNews calls against the persistent sent cache,   *)
(* with time passing between the calls.                                    *)
(***************************************************************************)
TickHours == {24, 25}

\* a fetched document as the call at time `now` sees it
DocAt(d, now) ==
    [title |-> d.title, link |-> d.link, source |-> d.source,
     publishedAt |-> now - d.age, relevanceScore |-> d.relevanceScore]

\* the sub-list of docs at the positions in `chosen`
RECURSIVE SubList(_, _, _)
SubList(docs, chosen, i) ==
    IF i > Len(docs) THEN <<>>
    ELSE (IF i \in chosen THEN <<docs[i]>> ELSE <<>>) \o SubList(docs, chosen, i + 1)

RankInputs(now) ==
    { [i \in 1..Len(ds) |-> DocAt(ds[i], now)] :
        ds \in { SubList(RankDocs, c, 1) :
                    c \in { x \in SUBSET (1..Len(RankDocs)) :
                                Cardinality(x) <= MaxRankInput } } }

Init ==
    /\ RankIdle
    /\ ProcIdle
    /\ input = <<>>
    /\ output = <<>>
    /\ phase = "machine"

\* rankNews(items, maxItems, maxAgeHours), load and save included
RankNews(items, maxItems, maxAgeHours, readOk, writeOk) ==
    LET now == clock
        sentCache == loadSentCache(store, now, readOk)
        topItems == rankNews(items, maxItems, maxAgeHours, now, sentCache)
        marked == sentCache \cup CanonSet(topItems)
        readFresh == store.exists =>
                        readOk /\ ~(now - store.timestamp > RetentionHours)
    IN  /\ ncalls < MaxCalls
        /\ store' = saveSentCache(store, marked, now, writeOk)
        /\ call' = [op |-> "rank", now |-> now, inputUrls |-> CanonSet(items),
                    stored |-> store, loaded |-> sentCache,
                    result |-> topItems, okSoFar |-> allOk /\ readFresh,
                    items |-> items, maxItems |-> maxItems,
                    maxAgeHours |-> maxAgeHours,
                    readFailed |-> (store.exists /\ ~readOk),
                    writeFailed |-> ~writeOk]
        /\ deliveredAt' =
              LET recorded == IF writeOk THEN CanonSet(topItems) ELSE {}
              IN  [u \in (DOMAIN deliveredAt) \cup recorded |->
                      IF u \in recorded THEN now ELSE deliveredAt[u]]
        /\ returnedBefore' = returnedBefore \cup
                (IF call.op = "rank" THEN CanonSet(call.result) ELSE {})
        /\ allOk' = (allOk /\ readFresh /\ writeOk)
        /\ ncalls' = ncalls + 1
        /\ UNCHANGED <<clock, fnVars, procVars, rel>>

\* getTopOfDay(items, count): no loadSentCache, no saveSentCache
GetTopOfDay(items, count) ==
    LET now == clock
    IN  /\ ncalls < MaxCalls
        /\ call' = [op |-> "top", now |-> now, items |-> items, count |-> count,
                    stored |-> store, result |-> getTopOfDay(items, count, now)]
        /\ returnedBefore' = returnedBefore \cup
                (IF call.op = "rank" THEN CanonSet(call.result) ELSE {})
        /\ ncalls' = ncalls + 1
        /\ UNCHANGED <<clock, store, deliveredAt, allOk, fnVars, procVars, runVars>>

Tick(d) ==
    /\ clock + d <= MaxClock
    /\ clock' = clock + d
    /\ UNCHANGED <<store, call, deliveredAt, returnedBefore, allOk, ncalls,
                   fnVars, procVars, runVars>>

Next ==
    \/ \E items \in RankInputs(clock), maxItems \in {1, MaxRankInput},
          readOk \in BOOLEAN, writeOk \in BOOLEAN :
            RankNews(items, maxItems, NewsMaxAgeHours, readOk, writeOk)
                /\ UNCHANGED runs
    \/ \E d \in TickHours : Tick(d)

Spec == Init /\ [][Next]_vars

\* SpecTop: getTopOfDay calls between rankNews calls that find the record
\* readable and writable.
NextTop ==
    \/ \E items \in RankInputs(clock), maxItems \in {1, MaxRankInput} :
            RankNews(items, maxItems, NewsMaxAgeHours, TRUE, TRUE)
                /\ UNCHANGED runs
    \/ \E items \in RankInputs(clock), count \in {1, MaxRankInput} :
            GetTopOfDay(items, count)
    \/ \E d \in TickHours : Tick(d)

SpecTop == Init /\ [][NextTop]_vars

(***************************************************************************)
(* SpecBot: the /trend and /money command handlers, several in progress    *)
(* at once, against the persistent sent cache.  Times are in hours; the    *)
(* scorers get them in tenths of an hour.                                  *)
(***************************************************************************)
MoneyCount == 10

\* a document as the fetch layer builds it
FeedDoc(title, link, source, ageHours, now) ==
    [title |-> title, description |-> <<>>, link |-> link, source |-> source,
     publishedAt |-> now - ageHours, relevanceScore |-> 0,
     scoreBreakdown |-> DEFAULT_BREAKDOWN]

\* what fetchAll / fetchAllMoneyFeeds may return (already deduplicated by URL)
FetchResults(now) ==
    { <<>>,
      << FeedDoc(<<"Trump", "tariffs,">>, <<"b">>, "s2", 1, now),
         FeedDoc(<<"Trump">>, <<"a">>, "s1", 0, now) >>,
      << FeedDoc(<<"markets", "markets", "markets">>, <<"c">>, "s1", 2, now),
         FeedDoc(<<"imports", "imports", "imports">>, <<"d">>, "s2", 30, now),
         FeedDoc(<<"announces", "announces", "announces">>, <<>>, "s2", 0, now) >>,
      \* pubDate is taken from the feed as it is: here a day ahead of now
      << FeedDoc(<<"stocks", "stocks", "stocks">>, <<"e">>, "s3", 0 - 24, now) >> }

\* .sort((a, b) => b.publishedAt.getTime() - a.publishedAt.getTime()), stable
RECURSIVE InsertByNewest(_, _)
InsertByNewest(sorted, item) ==
    IF sorted = <<>> THEN <<item>>
    ELSE IF Head(sorted).publishedAt >= item.publishedAt
         THEN <<Head(sorted)>> \o InsertByNewest(Tail(sorted), item)
         ELSE <<item>> \o sorted

RECURSIVE SortByNewest(_)
SortByNewest(items) ==
    IF items = <<>> THEN <<>>
    ELSE InsertByNewest(SortByNewest(SubSeq(items, 1, Len(items) - 1)),
                        items[Len(items)])

\* `recent` of runTrendingPipeline
RecentOf(rawItems, now) ==
    SortByNewest(SelectSeq(rawItems,
        LAMBDA item : /\ now - item.publishedAt <= NewsMaxAgeHours
                      /\ item.link # <<>>))

\* the same items with publishedAt in tenths of an hour
InTenths(items) ==
    [i \in 1..Len(items) |-> [items[i] EXCEPT !.publishedAt = 10 * @]]

\* what the social lookups may yield for the candidates
SocialOutcomes(items) ==
    { [i \in 1..Min(Len(items), TopCandidates) |-> 0],
      [i \in 1..Min(Len(items), TopCandidates) |-> IF i = 1 THEN SocialCap ELSE 0] }

\* computeRelevance(items) once its lookups have yielded socialScores
computeRelevance(items, now, socialScores) ==
    IF items = <<>> THEN <<>>
    ELSE EnrichAll(items, LocalScores(InTenths(items), 10 * now), socialScores)

\* the synchronous part of sendMoneyNews between the fetch and the send
MoneyResult(raw, now, count) ==
    LET recent == SelectSeq(raw,
                      LAMBDA item : /\ now - item.publishedAt <= 24
                                    /\ now - item.publishedAt >= 0
                                    /\ item.link # <<>>)
        inTenths == scoreMoneyItems(InTenths(recent), 10 * now)
        scored == [i \in 1..Len(recent) |->
                      [inTenths[i] EXCEPT !.publishedAt = recent[i].publishedAt]]
        unique == SortByScoreDesc(deduplicateBySimilarity(scored))
        diversified == diversifiedPick(unique, count + 5, 3)
        final == finalDedup(diversified)
    IN  SubSeq(final, 1, Min(Len(final), count))

SetRun(r, fields) == [runs EXCEPT ![r] = fields]

\* b.onText(/\/trend/): the greeting is sent, then runTrendingPipeline
\* issues fetchAll under its 60 s timer; a failed greeting goes to the catch
TrendCommand(r, greeted) ==
    /\ runs[r].kind = "none"
    /\ runs' = SetRun(r, IF greeted
                         THEN [runs[r] EXCEPT !.kind = "trend", !.pc = "fetch"]
                         ELSE [runs[r] EXCEPT !.kind = "trend", !.pc = "done",
                                              !.outcome = "error"])
    /\ UNCHANGED <<fnVars, procVars, rankVars, rel>>

\* rankNews and finalDedup of runTrendingPipeline, then sendNews is issued
RankAndClean(r, recent, enriched, readOk, writeOk) ==
    /\ RankNews(enriched, MaxNewsPerSend, NewsMaxAgeHours, readOk, writeOk)
    /\ runs' = SetRun(r, [runs[r] EXCEPT
                             !.pc = "send", !.recent = recent, !.ranked = TRUE,
                             !.clean = finalDedup(call'.result),
                             !.marked = IF writeOk THEN CanonSet(call'.result)
                                        ELSE {},
                             !.returned = CanonSet(call'.result)])

\* fetchAll resolves before the timer: the items are filtered and sorted
\* and computeRelevance is started under its 90 s timer (it returns at once
\* for an empty list)
FetchReturns(r, rawItems, readOk, writeOk) ==
    /\ runs[r].kind = "trend" /\ runs[r].pc = "fetch"
    /\ LET recent == RecentOf(rawItems, clock)
       IN  IF recent = <<>>
           THEN RankAndClean(r, recent, <<>>, readOk, writeOk)
           ELSE /\ runs' = SetRun(r, [runs[r] EXCEPT !.pc = "enrich",
                                                     !.recent = recent])
                /\ UNCHANGED <<fnVars, procVars, rankVars, rel>>

\* Bug-shaped variant: the timer only reports and the stage goes on.
StageTimeout_ReportOnly(r, stage) ==
    /\ runs[r].pc = stage
    /\ runs' = SetRun(r, [runs[r] EXCEPT !.outcome = "timeout"])
    /\ UNCHANGED <<fnVars, procVars, rankVars, rel>>

\* the timer of withTimeout fires first: the promise rejects, the handler's
\* catch reports the error, the stage itself is still running
StageTimeout(r, stage) ==
    /\ runs[r].pc = stage
    /\ runs' = SetRun(r, [runs[r] EXCEPT !.pc = "done", !.outcome = "timeout",
                                         !.outstanding = stage])
    /\ UNCHANGED <<fnVars, procVars, rankVars, rel>>

\* the stage that timed out completes: resolve() after reject() does nothing
LateReturn(r) ==
    /\ runs[r].outstanding \in { "fetch", "enrich" }
    /\ runs' = SetRun(r, [runs[r] EXCEPT !.outstanding = "settled"])
    /\ UNCHANGED <<fnVars, procVars, rankVars, rel>>

\* computeRelevance resolves before the timer
EnrichReturns(r, socialScores, readOk, writeOk) ==
    /\ runs[r].pc = "enrich"
    /\ RankAndClean(r, runs[r].recent,
                    computeRelevance(runs[r].recent, clock, socialScores),
                    readOk, writeOk)

\* sendNews / safeSend returns or throws after its retries
SendReturns(r, sent) ==
    /\ runs[r].pc = "send"
    /\ runs' = SetRun(r, [runs[r] EXCEPT
                             !.pc = "done",
                             !.outcome = IF sent THEN "delivered" ELSE "error"])
    /\ UNCHANGED <<fnVars, procVars, rankVars, rel>>

\* b.onText(/\/money/): greeting, then sendMoneyNews issues its fetch
MoneyCommand(r, greeted) ==
    /\ runs[r].kind = "none"
    /\ runs' = SetRun(r, IF greeted
                         THEN [runs[r] EXCEPT !.kind = "money", !.pc = "fetch"]
                         ELSE [runs[r] EXCEPT !.kind = "money", !.pc = "done",
                                              !.outcome = "error"])
    /\ UNCHANGED <<fnVars, procVars, rankVars, rel>>

\* fetchAllMoneyFeeds resolves: filter, score, dedup, pick, then the send
MoneyFetchReturns(r, raw) ==
    /\ runs[r].kind = "money" /\ runs[r].pc = "fetch"
    /\ runs' = SetRun(r, [runs[r] EXCEPT
                             !.pc = "send",
                             !.clean = MoneyResult(raw, clock, MoneyCount)])
    /\ UNCHANGED <<fnVars, procVars, rankVars, rel>>

InitBot ==
    /\ RankIdle
    /\ ProcIdle
    /\ input = <<>>
    /\ output = <<>>
    /\ phase = "bot"

NextBot ==
    \E r \in 1..MaxRuns :
        \/ \E greeted \in BOOLEAN : TrendCommand(r, greeted)
        \/ \E rawItems \in FetchResults(clock), readOk \in BOOLEAN, writeOk \in BOOLEAN :
              FetchReturns(r, rawItems, readOk, writeOk)
        \/ \E stage \in { "fetch", "enrich" } :
              runs[r].kind = "trend" /\ StageTimeout(r, stage)
        \/ LateReturn(r)
        \/ \E socialScores \in SocialOutcomes(runs[r].recent),
              readOk \in BOOLEAN, writeOk \in BOOLEAN :
              EnrichReturns(r, socialScores, readOk, writeOk)
        \/ \E sent \in BOOLEAN : SendReturns(r, sent)
        \/ \E greeted \in BOOLEAN : MoneyCommand(r, greeted)
        \/ \E raw \in FetchResults(clock) : MoneyFetchReturns(r, raw)

SpecBot == InitBot /\ [][NextBot]_vars

(***************************************************************************)
(* SpecPid: bot processes of one host starting and shutting down around    *)
(* the .bot.pid file.  A process is identified by its PID; its position is *)
(* "off" (not started), "kill" (at killExistingProcess), "wait" (in the    *)
(* 2000 ms loop), "write" (at writePidFile), "running" (handlers           *)
(* registered), "stopping" (shutdown awaits stopPolling) or "dead".        *)
(***************************************************************************)
InitProc ==
    /\ RankIdle
    /\ ProcIdle
    /\ input = <<>>
    /\ output = <<>>
    /\ phase = "proc"

Alive(p) == lock.pc[p] \notin { "off", "dead" }

\* what SIGTERM does to a process: shutdown() once the handler of line 196
\* is registered (a second signal returns at isShuttingDown), the default
\* action, termination, before that
Sigterm(pc) ==
    CASE pc = "running" -> "stopping"
      [] pc \in { "kill", "wait", "write" } -> "dead"
      [] OTHER -> pc

\* the operating system starts a bot process
StartProcess(p) ==
    /\ lock.pc[p] = "off"
    /\ lock' = [lock EXCEPT !.pc[p] = "kill", !.order = Append(@, p)]
    /\ UNCHANGED <<fnVars, rankVars, runVars, sup, poll>>

\* killExistingProcess up to the 2000 ms loop: without a file nothing is
\* done; a file with the process's own PID or the PID of a process that no
\* longer exists is unlinked; otherwise SIGTERM is sent and the loop entered
killExistingProcess(p) ==
    /\ lock.pc[p] = "kill"
    /\ LET oldPid == lock.file
       IN  lock' =
             IF oldPid = 0 THEN [lock EXCEPT !.pc[p] = "write"]
             ELSE IF oldPid = p \/ ~Alive(oldPid)
                  THEN [lock EXCEPT !.pc[p] = "write", !.file = 0]
                  ELSE [lock EXCEPT !.pc = [@ EXCEPT ![oldPid] = Sigterm(@),
                                                     ![p] = "wait"],
                                    !.oldPid[p] = oldPid]
    /\ UNCHANGED <<fnVars, rankVars, runVars, sup, poll>>

\* removePidFile: the file after the call
removePidFile(p, file) == IF file = p THEN 0 ELSE file

\* the loop of killExistingProcess ends, because process.kill(oldPid, 0)
\* threw or because 2000 ms have passed, whichever comes first; the file is
\* then unlinked
KillWaitEnds(p) ==
    /\ lock.pc[p] = "wait"
    /\ lock' = [lock EXCEPT !.pc[p] = "write", !.file = 0]
    /\ UNCHANGED <<fnVars, rankVars, runVars, sup, poll>>

\* writePidFile, then the rest of the module's top level: the bot is
\* started and the signal handlers are registered
writePidFile(p) ==
    /\ lock.pc[p] = "write"
    /\ lock' = [lock EXCEPT !.pc[p] = "running", !.file = p]
    /\ UNCHANGED <<fnVars, rankVars, runVars, sup, poll>>

\* SIGINT or SIGTERM from the operator or the supervisor: shutdown() sets
\* isShuttingDown and awaits bot.stopPolling()
shutdown(p) ==
    /\ lock.pc[p] = "running"
    /\ lock' = [lock EXCEPT !.pc[p] = "stopping"]
    /\ UNCHANGED <<fnVars, rankVars, runVars, sup, poll>>

\* stopPolling has settled: removePidFile(), process.exit(0)
ShutdownExits(p) ==
    /\ lock.pc[p] = "stopping"
    /\ lock' = [lock EXCEPT
                  !.pc[p] = "dead",
                  !.file = removePidFile(p, lock.file),
                  !.removedOther = @ \/ ( /\ removePidFile(p, lock.file) # lock.file
                                          /\ lock.file # p )]
    /\ UNCHANGED <<fnVars, rankVars, runVars, sup, poll>>

NextPid ==
    \E p \in 1..MaxProcs :
        \/ StartProcess(p)
        \/ killExistingProcess(p)
        \/ KillWaitEnds(p)
        \/ writePidFile(p)
        \/ shutdown(p)
        \/ ShutdownExits(p)

SpecPid == InitProc /\ [][NextPid]_vars

(***************************************************************************)
(* Claims about the ranker and the DeliveredSet.                           *)
(***************************************************************************)
RecordStale(c) == c.stored.exists /\ c.now - c.stored.timestamp > RetentionHours

\* C1: while every write succeeds and every read finds a non-stale record,
\* rankNews returns no item whose canonical URL is in the stored
\* DeliveredSet, and none whose canonical URL an earlier call returned.
C1_NeverRedelivers ==
    (call.op = "rank" /\ call.okSoFar) =>
        \A i \in 1..Len(call.result) :
            LET u == normalizeUrl(call.result[i].link)
            IN  u \notin call.stored.urls /\ u \notin returnedBefore

\* C1 witness: a later call is offered a URL an earlier call returned, among
\* others, and returns something.
C1_Witness ==
    /\ call.op = "rank" /\ call.okSoFar /\ ncalls >= 2
    /\ call.inputUrls \cap returnedBefore # {}
    /\ call.result # <<>>

Words(item) == extractSignificantWords(item.title)

ItemsOf(list) == { list[i] : i \in 1..Len(list) }

AtMostPerSource(list, n) ==
    \A src \in { d.source : d \in ItemsOf(list) } : SourceCount(list, src) <= n

\* C3: whatever the list, maxItems and maxAgeHours, the list rankNews (and
\* getTopOfDay) returns holds at most 3 items of one source and at most
\* maxItems items.
C3_PickIsCapped ==
    phase = "done" =>
        /\ AtMostPerSource(output.ranked, 3) /\ Len(output.ranked) <= input.maxItems
        /\ AtMostPerSource(output.top, 3) /\ Len(output.top) <= input.maxItems

\* C3 witness: four eligible documents of one source and room for four, of
\* which only three are returned.
C3_Witness ==
    /\ phase = "done"
    /\ input.maxItems >= 4
    /\ \E src \in {"s1", "s2"} :
          /\ Cardinality({ i \in 1..Len(input.items) :
                 /\ input.items[i].source = src
                 /\ input.items[i].link # <<>>
                 /\ 0 - input.items[i].publishedAt <= input.maxAgeHours }) >= 4
          /\ SourceCount(output.ranked, src) = 3
          /\ SourceCount(output.top, src) = 3

\* the three documents of the list that are not the unrelated one
ClusterOf(items) == { d \in ItemsOf(items) : d.title # UnrelatedTitle }

\* pairwise Jaccard >= 0.4 among the cluster, no word shared with the
\* unrelated title
NearIdentical(items) ==
    /\ \A d, e \in ClusterOf(items) :
          RatioGeq(jaccardSimilarity(Words(d), Words(e)), 40)
    /\ \A d \in ClusterOf(items) :
          Range(Words(d)) \cap Range(extractSignificantWords(UnrelatedTitle)) = {}

\* exactly two items: the unrelated document and a highest-scored document
\* of the cluster
TwoReturned(items, result) ==
    /\ Len(result) = 2
    /\ \E i \in 1..2 : result[i].title = UnrelatedTitle
    /\ \E i \in 1..2 :
          /\ result[i] \in ClusterOf(items)
          /\ \A d \in ClusterOf(items) :
                d.relevanceScore <= result[i].relevanceScore

\* C4 (as claimed): from three fresh documents of three sources with
\* pairwise Jaccard >= 0.4 and one unrelated document, rankNews(items, 10,
\* 24) on an empty DeliveredSet returns exactly the highest-scored document
\* of the cluster and the unrelated one.
C4_ClusterCollapses ==
    (phase = "done" /\ NearIdentical(input.items))
        => TwoReturned(input.items, output.ranked)

\* C4 (amended): the same, when each of the three near-identical titles has
\* at least 3 significant words.
C4_LongClusterCollapses ==
    (/\ phase = "done"
     /\ NearIdentical(input.items)
     /\ \A d \in ClusterOf(input.items) : Len(Words(d)) >= 3)
        => TwoReturned(input.items, output.ranked)

\* C4 witness: such a cluster of three different titles, their scores not
\* all equal, collapsed to its best document.
C4_Witness ==
    /\ phase = "done"
    /\ NearIdentical(input.items)
    /\ \A d \in ClusterOf(input.items) : Len(Words(d)) >= 3
    /\ Cardinality({ d.title : d \in ClusterOf(input.items) }) = 3
    /\ Cardinality({ d.relevanceScore : d \in ClusterOf(input.items) }) >= 2
    /\ Len(output.ranked) = 2

(***************************************************************************)
(* Claims about the deduplicators and the similarity engine.               *)
(***************************************************************************)
\* C5: finalDedup is idempotent, finalDedup(finalDedup(x)) = finalDedup(x),
\* and no two items it keeps are final-pass duplicates of each other.
C5_FinalDedupIdempotent ==
    /\ phase \in {"once", "twice"} =>
          \A i, j \in 1..Len(output.final) :
              i # j => ~FinalDuplicate(Words(output.final[i]), Words(output.final[j]))
    /\ phase = "twice" => output.finalAgain = output.final

\* C5 witness: a second pass over a list from which the first pass dropped
\* a duplicate and kept at least two items.
C5_Witness ==
    /\ phase = "twice"
    /\ Len(output.final) >= 2
    /\ Len(output.final) < Len(input.items)

\* C6: deduplicateBySimilarity is idempotent, also with tied scores, and no
\* two items it keeps satisfy areSimilar.
C6_EarlyDedupIdempotent ==
    /\ phase \in {"once", "twice"} =>
          \A i, j \in 1..Len(output.early) :
              i # j => ~areSimilar(output.early[i].title, output.early[j].title)
    /\ phase = "twice" => output.earlyAgain = output.early

\* C6 witness: a second pass over a list with a tie among the kept items,
\* from which the first pass dropped a duplicate.
C6_Witness ==
    /\ phase = "twice"
    /\ Len(output.early) < Len(input.items)
    /\ \E i, j \in 1..Len(output.early) :
          i # j /\ output.early[i].relevanceScore = output.early[j].relevanceScore

\* the positions of `list` form a list without repetition of items of `of`
IsSubList(list, of) ==
    /\ ItemsOf(list) \subseteq ItemsOf(of)
    /\ \A i, j \in 1..Len(list) : i # j => list[i] # list[j]

\* C22: the output of deduplicateBySimilarity is made of items of its input,
\* each once, in non-increasing relevanceScore order, and every input item it
\* dropped is areSimilar to a kept item whose relevanceScore is at least its
\* own.
C22_EarlyDedupKeepsBest ==
    phase \in {"once", "twice"} =>
        /\ IsSubList(output.early, input.items)
        /\ \A i \in 1..(Len(output.early) - 1) :
              output.early[i].relevanceScore >= output.early[i + 1].relevanceScore
        /\ \A d \in ItemsOf(input.items) \ ItemsOf(output.early) :
              \E k \in ItemsOf(output.early) :
                  /\ areSimilar(d.title, k.title)
                  /\ k.relevanceScore >= d.relevanceScore

\* C22 witness: an item is dropped in favour of a similar item with a
\* strictly higher score that comes after it in the input, and two items of
\* different scores are kept.
C22_Witness ==
    /\ phase = "once"
    /\ \E i, j \in 1..Len(input.items) :
          /\ i < j
          /\ input.items[i] \notin ItemsOf(output.early)
          /\ input.items[j] \in ItemsOf(output.early)
          /\ areSimilar(input.items[i].title, input.items[j].title)
          /\ input.items[j].relevanceScore > input.items[i].relevanceScore
    /\ Cardinality({ d.relevanceScore : d \in ItemsOf(output.early) }) >= 2

\* the kept items stand in the order they have in the input
KeepsInputOrder(list, of) ==
    \A i, j \in 1..Len(list) :
        i < j => \E p, q \in 1..Len(of) : p < q /\ of[p] = list[i] /\ of[q] = list[j]

\* C23: the output of finalDedup is a subsequence of its input (first item
\* kept, kept items in input order), and every dropped item is a final-pass
\* duplicate of a kept item that precedes it in the input.
C23_FinalDedupKeepsOrder ==
    phase \in {"once", "twice"} =>
        /\ IsSubList(output.final, input.items)
        /\ KeepsInputOrder(output.final, input.items)
        /\ input.items # <<>> => /\ output.final # <<>>
                                 /\ output.final[1] = input.items[1]
        /\ \A q \in 1..Len(input.items) :
              input.items[q] \notin ItemsOf(output.final) =>
                  \E p \in 1..(q - 1) :
                      /\ input.items[p] \in ItemsOf(output.final)
                      /\ FinalDuplicate(Words(input.items[q]), Words(input.items[p]))

\* C23 witness: finalDedup keeps a lower-scored item ahead of a higher-scored
\* one and drops a later item with a higher score than the kept item it
\* duplicates.
C23_Witness ==
    /\ phase = "once"
    /\ \E i \in 1..(Len(output.final) - 1) :
          output.final[i].relevanceScore < output.final[i + 1].relevanceScore
    /\ \E p, q \in 1..Len(input.items) :
          /\ p < q
          /\ input.items[q] \notin ItemsOf(output.final)
          /\ input.items[p] \in ItemsOf(output.final)
          /\ FinalDuplicate(Words(input.items[q]), Words(input.items[p]))
          /\ input.items[q].relevanceScore > input.items[p].relevanceScore

\* C7: areSimilar is true of every pair of identical titles, whatever the
\* title, titles without significant words included.
C7_IdenticalTitlesSimilar ==
    (phase = "done" /\ input.a = input.b) => output.similar

\* C8: areSimilar("Trump tariffs",
\*                "Trump announces new tariffs on China imports") is true.
C8_TrumpTariffsSimilar ==
    (phase = "done" /\ input.a = TitleTrumpShort /\ input.b = TitleTrumpLong)
        => output.similar

\* C25: for every pair of titles, if areSimilar holds, under the short-title
\* rule or the general one, then the final-pass predicate of finalDedup
\* holds of the pair too.
C25_FinalAtLeastAsAggressive ==
    phase = "done" => (output.similar => output.finalDup)

\* C25 witness: two different titles, one of them with at most 2 significant
\* words, that areSimilar merges under the short-title rule.
C25_Witness ==
    /\ phase = "done" /\ output.similar /\ output.finalDup
    /\ Range(extractSignificantWords(input.a))
           # Range(extractSignificantWords(input.b))
    /\ Len(extractSignificantWords(input.a)) <= 2

(***************************************************************************)
(* Claims about the relevance sub-scores.                                  *)
(***************************************************************************)
RecencyEnds ==
    /\ input.younger = 0 => output.younger = 20
    /\ input.younger >= TenthsPerDay => output.younger = 0
    /\ input.older >= TenthsPerDay => output.older = 0

\* C9 (as claimed): the recency score is 20 at age 0h, 0 at every age >=
\* 24h, and strictly decreasing in age between 0h and 24h.
C9_RecencyStrictlyDecreasing ==
    phase = "done" =>
        /\ RecencyEnds
        /\ input.older <= TenthsPerDay => output.older < output.younger

\* C9 (amended): the recency score is 20 at age 0h, 0 at every age >= 24h,
\* and non-increasing in age: an older document never gets a higher score
\* than a younger one, and gets a lower one when it is at least 1.2 hours
\* older, up to 24h.
C9_RecencyNonIncreasing ==
    phase = "done" =>
        /\ RecencyEnds
        /\ output.older <= output.younger
        /\ (input.older <= TenthsPerDay /\ input.older - input.younger >= 12)
              => output.older < output.younger

\* C9 witness: two documents of different ages below 24h with the same
\* positive score.
C9_Witness ==
    /\ phase = "done"
    /\ input.older < TenthsPerDay
    /\ output.older = output.younger
    /\ output.older > 0

\* the sources other than i's own with a title sharing at least 40% of i's
\* keywords, the shared keywords counted as a set
CorroboratingSources(items, i) ==
    LET kwA == Range(extractKeywords(items[i].title))
    IN  { src \in { items[j].source : j \in 1..Len(items) } \ {items[i].source} :
            \E j \in 1..Len(items) :
                /\ items[j].source = src
                /\ kwA # {}
                /\ Cardinality(kwA \cap Range(extractKeywords(items[j].title))) * 100
                      >= 40 * Cardinality(kwA) }

\* C10: the cross-feed score of document i is 0, 30, 40 or 50 as 0, 1, 2 or
\* at least 3 distinct sources other than its own hold a title meeting the
\* 40% overlap threshold, each source counted once; it is 0 when no source
\* qualifies or i has no keywords.
C10_CrossFeedBySources ==
    phase = "done" =>
        \A i \in 1..Len(input.items) :
            LET n == Cardinality(CorroboratingSources(input.items, i))
            IN  output.crossFeed[i] =
                    (IF n >= 3 THEN 50 ELSE IF n = 2 THEN 40
                     ELSE IF n = 1 THEN 30 ELSE 0)

\* C11: document j of another source corroborates document i only if the
\* keywords shared by the two titles' keyword sets, counted as a set (a
\* keyword repeated in j's title counts once), are at least 40% of i's
\* keywords; the ratio never exceeds 1.
C11_SharedCountedAsSet ==
    phase = "done" =>
        \A i, j \in 1..Len(input.items) :
            (i # j /\ input.items[i].source # input.items[j].source) =>
                LET kwA == Range(extractKeywords(input.items[i].title))
                    kwB == Range(extractKeywords(input.items[j].title))
                    sim == output.similarity[i][j]
                IN  /\ sim.num <= sim.den
                    /\ RatioGeq(sim, 40) =>
                          /\ kwA # {}
                          /\ Cardinality(kwA \cap kwB) * 100 >= 40 * Cardinality(kwA)

(***************************************************************************)
(* Claims about computeRelevance.                                          *)
(***************************************************************************)
\* the position in the input of a document of `enriched`
IndexOf(e) == CHOOSE k \in 1..input.n : RelItems(input)[k].link = e.link

PreScore(e) ==
    e.scoreBreakdown.crossFeedScore + e.scoreBreakdown.trendingScore
        + e.scoreBreakdown.recencyScore

Enriched == ItemsOf(rel.enriched)

\* C12: lookups are started for at most 20 documents; once computeRelevance
\* has returned, every document that was not looked up has socialScore 0,
\* no looked-up document has a lower pre-score than one that was not, and
\* every socialScore is at most 50.
C12_TopTwentyLookedUp ==
    /\ Cardinality(rel.launched) <= 20
    /\ rel.pc = "done" =>
          /\ \A e \in Enriched :
                /\ e.scoreBreakdown.socialScore <= 50
                /\ IndexOf(e) \notin rel.launched => e.scoreBreakdown.socialScore = 0
          /\ \A e, f \in Enriched :
                (IndexOf(e) \in rel.launched /\ IndexOf(f) \notin rel.launched)
                    => PreScore(e) >= PreScore(f)

\* C12 witness: more than 20 documents, 20 of them looked up, one left out
\* although it comes earlier in the input than a looked-up one with a
\* higher pre-score, and a raw social total above 50 capped to 50.
C12_Witness ==
    /\ rel.pc = "done"
    /\ Cardinality(rel.launched) = 20
    /\ \E e, f \in Enriched :
          /\ IndexOf(f) \notin rel.launched /\ IndexOf(e) \in rel.launched
          /\ IndexOf(f) < IndexOf(e)
          /\ PreScore(f) < PreScore(e)
    /\ \E e \in Enriched :
          /\ e.scoreBreakdown.socialScore = 50
          /\ getSocialScore_NoCap(
                 checkProvider(Response(input, IndexOf(e), "hn")).value,
                 checkProvider(Response(input, IndexOf(e), "reddit")).value) > 50

\* a provider call for document k fails
Fails(k, provider) == ~Response(input, k, provider).ok

\* score + 2 x comments of the best hit of a provider that answered
ProviderPoints(k, provider) ==
    LET hits == Range(Response(input, k, provider).hits)
    IN  IF Fails(k, provider) \/ hits = {} THEN 0
        ELSE LET best == CHOOSE h \in hits : \A g \in hits : g.score <= h.score
             IN  best.score + 2 * best.comments

OwnScore(k) ==
    Min(ProviderPoints(k, "hn") + ProviderPoints(k, "reddit"), 50)

\* C13 (as claimed): a looked-up document one of whose provider calls
\* failed gets socialScore 0, and every other looked-up document keeps its
\* own score.
C13_FailedLookupScoresZero ==
    rel.pc = "done" =>
        \A e \in Enriched :
            IndexOf(e) \in rel.launched =>
                e.scoreBreakdown.socialScore =
                    (IF \E p \in Providers : Fails(IndexOf(e), p)
                     THEN 0 ELSE OwnScore(IndexOf(e)))

\* C13 (amended): a failed provider call contributes 0 to its document's
\* socialScore, which is what the other provider alone yields (0 when both
\* fail); every other looked-up document keeps its own score, and
\* computeRelevance is never stuck before it returns: while a batch is
\* awaited a provider call is still to return, and it returns every input
\* document.
C13_FailedProviderCountsZero ==
    /\ rel.pc = "done" =>
          /\ Len(rel.enriched) = input.n
          /\ \A e \in Enriched :
                IndexOf(e) \in rel.launched =>
                    e.scoreBreakdown.socialScore = OwnScore(IndexOf(e))
    /\ rel.pc = "batch" =>
          /\ rel.pending # {}
          /\ \A c \in rel.pending : c[1] \in 1..Len(rel.top)

\* C13 witness: computeRelevance returned after several batches, a provider
\* call of a looked-up document of the first batch failed, and a document of
\* the same batch and one of a later batch have positive social scores.
C13_Witness ==
    /\ rel.pc = "done"
    /\ rel.i >= BatchSize
    /\ \E pos \in 1..BatchSize :
          /\ rel.top[pos].index = input.failAt
          /\ \E other \in 1..BatchSize :
                other # pos /\ SocialOf(rel.socialScores, rel.top[other].index) > 0
    /\ \E later \in (BatchSize + 1)..Len(rel.top) :
          SocialOf(rel.socialScores, rel.top[later].index) > 0

\* positions (in topCandidates) of the lookups with a provider call pending
InFlight == { c[1] : c \in rel.pending }

\* C14: at most 5 lookups are in flight, all of them of the current batch,
\* and while a batch is in flight every lookup of the earlier batches has
\* settled.
C14_BatchesOfFive ==
    /\ Cardinality(InFlight) <= 5
    /\ InFlight \subseteq (rel.i + 1)..(rel.i + 5)
    /\ \A pos \in 1..Len(rel.top) :
          rel.top[pos].index \in rel.launched =>
              \/ pos \in (rel.i + 1)..(rel.i + 5)
              \/ /\ pos <= rel.i
                 /\ rel.top[pos].index \in DOMAIN rel.socialScores

\* C14 witness: a later batch with 5 lookups in flight.
C14_Witness ==
    /\ rel.pc = "batch"
    /\ rel.i >= BatchSize
    /\ Cardinality(InFlight) = 5

\* the words of a document's title or description that kw(...) keeps
WordsIn(item, kw(_)) == Range(kw(item.title)) \cup Range(kw(item.description))

\* the number of documents of the list in which the word occurs
DocsWith(items, w, kw(_)) ==
    Cardinality({ j \in 1..Len(items) : w \in WordsIn(items[j], kw) })

\* min(5 x number of the document's distinct words found in at least 3
\* documents, 30)
TrendingPoints(items, i, kw(_)) ==
    Min(5 * Cardinality({ w \in WordsIn(items[i], kw) :
                            DocsWith(items, w, kw) >= 3 }), 30)

\* C24: a document's trending score is min(5 x number of its distinct
\* keywords that occur in the title or description of at least 3 documents
\* of the list, 30), a keyword repeated inside one document counting once;
\* with fewer than 3 documents every trending score is 0.  The same holds of
\* the money scorer with its own keywords.
C24_TrendingByDocuments ==
    phase = "done" =>
        /\ \A i \in 1..Len(input.items) :
              /\ output.trending[i] = TrendingPoints(input.items, i, extractKeywords)
              /\ output.money[i] = TrendingPoints(input.items, i, moneyExtractKeywords)
        /\ Len(input.items) < 3 =>
              \A i \in 1..Len(input.items) :
                  output.trending[i] = 0 /\ output.money[i] = 0

\* C24 witness: a document reaches the cap of 30 with seven trending
\* keywords, and a keyword that occurs three times in the list but in fewer
\* than three documents earns nothing.
C24_Witness ==
    /\ phase = "done"
    /\ \E i \in 1..Len(input.items) :
          /\ output.trending[i] = 30
          /\ Cardinality({ w \in WordsIn(input.items[i], extractKeywords) :
                             DocsWith(input.items, w, extractKeywords) >= 3 }) = 7
    /\ \E i \in 1..Len(input.items) :
          /\ output.trending[i] = 5
          /\ \E w \in WordsIn(input.items[i], extractKeywords) :
                /\ KeywordFreq_Occurrences(input.items, w) >= 3
                /\ DocsWith(input.items, w, extractKeywords) < 3

\* the positions of the (at most 20) documents with the highest pre-score,
\* ties going to the earlier document
ExpectedLookedUp(pre) ==
    LET before(j, k) == pre[j] > pre[k] \/ (pre[j] = pre[k] /\ j < k)
    IN  { k \in DOMAIN pre :
            Cardinality({ j \in DOMAIN pre : before(j, k) }) < TopCandidates }

\* C21: whatever the order in which the provider calls of each batch
\* return, computeRelevance returns the same scores: a document's cross-feed,
\* trending and recency scores are those of the complete input list, its
\* social score is the one of its own lookup (0 when it is not among the
\* looked-up ones), and its total is their sum.
C21_CompletionOrderIrrelevant ==
    rel.pc = "done" =>
        LET items == RelItems(input)
            cf == computeCrossFeedScores(items)
            tr == computeTrendingScores(items)
            rc == computeRecencyScores(items, 0)
            pre == [k \in 1..input.n |-> cf[k] + tr[k] + rc[k]]
            lookedUp == ExpectedLookedUp(pre)
        IN  /\ Len(rel.enriched) = input.n
            /\ \A e \in Enriched :
                  LET k == IndexOf(e)
                      bd == e.scoreBreakdown
                      sc == IF k \in lookedUp THEN OwnScore(k) ELSE 0
                  IN  /\ bd.crossFeedScore = cf[k]
                      /\ bd.trendingScore = tr[k]
                      /\ bd.recencyScore = rc[k]
                      /\ bd.socialScore = sc
                      /\ e.relevanceScore = pre[k] + sc

\* C21 witness: computeRelevance returned after a provider call of one
\* candidate returned before a call of an earlier candidate of its batch,
\* and two looked-up documents have different positive social scores.
C21_Witness ==
    /\ rel.pc = "done" /\ rel.overtaken
    /\ \E e, f \in Enriched :
          /\ e.scoreBreakdown.socialScore > f.scoreBreakdown.socialScore
          /\ f.scoreBreakdown.socialScore > 0

(***************************************************************************)
(* Claims about the command handlers.                                      *)
(***************************************************************************)
\* every document a handler or the ranker holds
PipelineDocs ==
    UNION { ItemsOf(runs[r].recent) \cup ItemsOf(runs[r].clean) : r \in 1..MaxRuns }
        \cup (IF call.op = "rank" THEN ItemsOf(call.result) ELSE {})

\* C15: in every state of a pipeline run each document's totalScore is the
\* sum of its four sub-scores, and its relevanceScore equals its totalScore
\* (both 0 before scoring).
C15_TotalIsSum ==
    \A d \in PipelineDocs :
        /\ d.scoreBreakdown.totalScore =
              d.scoreBreakdown.crossFeedScore + d.scoreBreakdown.trendingScore
                  + d.scoreBreakdown.recencyScore + d.scoreBreakdown.socialScore
        /\ d.relevanceScore = d.scoreBreakdown.totalScore

\* C15 witness: a /trend run holding a scored document with a positive
\* social score and a /money run holding a scored document.
C15_Witness ==
    /\ \E r \in 1..MaxRuns :
          /\ runs[r].kind = "trend"
          /\ \E d \in ItemsOf(runs[r].clean) :
                d.scoreBreakdown.socialScore > 0 /\ d.scoreBreakdown.recencyScore > 0
    /\ \E r \in 1..MaxRuns :
          /\ runs[r].kind = "money"
          /\ \E d \in ItemsOf(runs[r].clean) : d.relevanceScore > 0

\* C26: every document scored in a /trend run has a recency score in 0..20
\* and a total score of at most 150, also when its publishedAt is later than
\* the time of the run.
C26_RecencyWithinTwenty ==
    \A r \in 1..MaxRuns :
        (runs[r].kind = "trend" /\ runs[r].ranked) =>
            \A d \in ItemsOf(call.items) \cup ItemsOf(runs[r].clean) :
                /\ d.scoreBreakdown.recencyScore \in 0..MaxRecency
                /\ d.scoreBreakdown.totalScore <= 150

\* the /trend runs of the process that have been through rankNews
RankedTrendRuns ==
    { r \in 1..MaxRuns : runs[r].kind = "trend" /\ runs[r].ranked }

\* no canonical URL returned to two runs, and every returned URL is in the
\* stored DeliveredSet
NoUrlTwiceNoneLost ==
    /\ \A r1, r2 \in RankedTrendRuns :
          r1 # r2 => runs[r1].returned \cap runs[r2].returned = {}
    /\ \A r \in RankedTrendRuns : runs[r].returned \subseteq store.urls

C16_TimeoutAborts ==
    \A r \in 1..MaxRuns :
        runs[r].outcome = "timeout" =>
            /\ runs[r].pc = "done"
            /\ ~runs[r].ranked
            /\ runs[r].marked = {}
            /\ runs[r].clean = <<>>

\* C16 witness: the enrichment of a non-empty candidate list timed out and
\* completed afterwards.
C16_Witness ==
    \E r \in 1..MaxRuns :
        /\ runs[r].outcome = "timeout"
        /\ runs[r].outstanding = "settled"
        /\ runs[r].recent # <<>>

\* C17: rankNews always returns.  When reading or parsing the record fails
\* the returned list is the one an empty DeliveredSet gives; when the write
\* fails the returned list is the one the set as loaded gives, and the
\* stored record is left as it was.
C17_StorageFailuresSwallowed ==
    call.op = "rank" =>
        /\ call.readFailed =>
              call.result = rankNews(call.items, call.maxItems, call.maxAgeHours,
                                     call.now, {})
        /\ call.writeFailed =>
              /\ call.result = rankNews(call.items, call.maxItems,
                                        call.maxAgeHours, call.now,
                                        IF call.readFailed \/ RecordStale(call)
                                        THEN {} ELSE call.stored.urls)
              /\ store = call.stored

\* C17 witness: a call whose read failed on a fresh record holding a URL it
\* is offered returns that URL, and its write failed too.
C17_Witness ==
    /\ call.op = "rank" /\ call.readFailed /\ call.writeFailed
    /\ ~RecordStale(call)
    /\ \E i \in 1..Len(call.result) :
          normalizeUrl(call.result[i].link) \in call.stored.urls

\* C18: a getTopOfDay call leaves the stored record (urls and timestamp) as
\* it was, and returns what the ranking of a 24-hour window gives when
\* nothing has been delivered, whatever the record holds.
C18_TopOfDayIgnoresDelivered ==
    call.op = "top" =>
        /\ store = call.stored
        /\ call.result = rankNews(call.items, call.count, TopOfDayHours,
                                  call.now, {})

\* C18 witness: a getTopOfDay call returns a document whose URL is in a
\* fresh stored record.
C18_Witness ==
    /\ call.op = "top" /\ call.stored.exists
    /\ ~(call.now - call.stored.timestamp > RetentionHours)
    /\ \E i \in 1..Len(call.result) :
          normalizeUrl(call.result[i].link) \in call.stored.urls

\* the call read a record that exists, parses and is not stale
ReadFresh(c) == c.stored.exists /\ ~c.readFailed /\ ~RecordStale(c)

\* C19 (as claimed): after a rankNews call that read a non-stale
\* DeliveredSet S and accepted the items A, the stored set is S united with
\* the canonical links of A and the stored timestamp is the time of the
\* call.
C19_PersistedIsMerge ==
    (call.op = "rank" /\ ReadFresh(call)) =>
        /\ store.urls = call.stored.urls \cup CanonSet(call.result)
        /\ store.timestamp = call.now

\* C19 (amended): the same when the write succeeded; when the write failed
\* the stored record, urls and timestamp, is the one the call read.
C19_PersistedIsMergeIfWritten ==
    (call.op = "rank" /\ ReadFresh(call)) =>
        IF call.writeFailed
        THEN store = call.stored
        ELSE /\ store.exists
             /\ store.urls = call.stored.urls \cup CanonSet(call.result)
             /\ store.timestamp = call.now

\* C19 witness: a call at a later time than the record's adds a URL to a
\* fresh, non-empty record, and the write succeeded.
C19_Witness ==
    /\ call.op = "rank" /\ ReadFresh(call) /\ ~call.writeFailed
    /\ call.stored.urls # {} /\ call.now > call.stored.timestamp
    /\ ~(CanonSet(call.result) \subseteq call.stored.urls)

\* C20: every URL a finished /trend run added to the DeliveredSet belongs
\* to an item of the list it handed to the delivery layer, and the send
\* succeeded.
C20_OnlyShownAreMarked ==
    \A r \in 1..MaxRuns :
        runs[r].pc = "done" =>
            runs[r].marked \subseteq
                (IF runs[r].outcome = "delivered" THEN CanonSet(runs[r].clean)
                 ELSE {})

(***************************************************************************)
(* SpecRunner: the supervisor of runner.js, its children, their 'exit' and *)
(* 'error' events, the restart timers and quit().  Node emits 'error' for  *)
(* a child that could not be spawned or could not be killed, and 'exit'    *)
(* may or may not follow an 'error'.                                       *)
(***************************************************************************)
ChildrenAlive(s) == { c \in 1..MaxChildren : s.child[c] = "alive" }

\* startBot(): returns at once when quitting, else spawns the next child
\* and makes it botProcess
startBot(s, spawnOk) ==
    IF s.isQuitting THEN s
    ELSE LET c == s.botProcess + 1
         IN  [s EXCEPT !.botProcess = c,
                       !.child[c] = IF spawnOk THEN "alive" ELSE "failed",
                       !.spawnedOver = @ \/ ChildrenAlive(s) # {},
                       !.spawnedAfterQuit = @ \/ s.isQuitting]

\* currentDelay after a crash that leaves `crashes` timestamps in the window
NextDelay(currentDelay, crashes) ==
    IF crashes >= MAX_CRASHES_IN_WINDOW
    THEN Min(currentDelay * BACKOFF_MULTIPLIER, MAX_RESTART_DELAY)
    ELSE MIN_RESTART_DELAY

\* botProcess.on('exit'): `kept` of the older timestamps are still inside
\* CRASH_WINDOW
OnExit(s, c, kept) ==
    IF s.isQuitting THEN s
    ELSE LET crashes == Min(kept + 1, MAX_CRASHES_IN_WINDOW)
             delay == NextDelay(s.currentDelay, crashes)
         IN  [s EXCEPT !.crashes = crashes, !.currentDelay = delay,
                       !.timers = @ + 1,
                       !.scheduled[c] = Append(@, delay)]

\* botProcess.on('error')
OnError(s, c) ==
    [s EXCEPT !.timers = @ + 1, !.scheduled[c] = Append(@, s.currentDelay)]

\* `node runner.js`: writePid(); startBot()
RunnerStart(spawnOk) ==
    /\ sup.pc = "off"
    /\ sup' = startBot([sup EXCEPT !.pc = "up"], spawnOk)
    /\ UNCHANGED <<fnVars, rankVars, runVars, lock, poll>>

\* a child ends and its 'exit' is emitted; for a child whose spawn failed
\* this is the 'exit' after its 'error'
ChildExit(c, kept) ==
    /\ sup.pc = "up"
    /\ sup.child[c] \in { "alive", "errored" }
    /\ kept \in 0..sup.crashes
    /\ sup' = OnExit([sup EXCEPT !.child[c] = "ended"], c, kept)
    /\ UNCHANGED <<fnVars, rankVars, runVars, lock, poll>>

\* 'error' is emitted for a child that could not be spawned
ChildError(c) ==
    /\ sup.pc = "up"
    /\ sup.child[c] = "failed"
    /\ sup' = OnError([sup EXCEPT !.child[c] = "errored"], c)
    /\ UNCHANGED <<fnVars, rankVars, runVars, lock, poll>>

\* a setTimeout(startBot, delay) fires
RestartTimerFires(spawnOk) ==
    /\ sup.pc = "up"
    /\ sup.timers > 0
    /\ sup.isQuitting \/ sup.botProcess < MaxChildren
    /\ sup' = startBot([sup EXCEPT !.timers = @ - 1], spawnOk)
    /\ UNCHANGED <<fnVars, rankVars, runVars, lock, poll>>

\* quit(signal), first call: SIGTERM to botProcess and the 3 s timer.  A
\* kill that fails emits 'error' on the child; a kill of a child that has
\* ended returns false
quit(killOk) ==
    /\ sup.pc = "up"
    /\ ~sup.isQuitting
    /\ LET s == [sup EXCEPT !.isQuitting = TRUE]
           c == sup.botProcess
       IN  sup' =
             IF c # 0 /\ ~sup.killed
             THEN IF sup.child[c] # "alive" THEN [s EXCEPT !.quitTimer = TRUE]
                  ELSE IF killOk
                       THEN [s EXCEPT !.killed = TRUE, !.quitTimer = TRUE]
                       ELSE [OnError(s, c) EXCEPT !.quitTimer = TRUE]
             ELSE [s EXCEPT !.pc = "exited"]
    /\ UNCHANGED <<fnVars, rankVars, runVars, lock, poll>>

\* the 3 s timer of quit: SIGKILL unless botProcess.killed, removePid(),
\* process.exit(0)
QuitTimerFires ==
    /\ sup.pc = "up"
    /\ sup.quitTimer
    /\ LET c == sup.botProcess
       IN  sup' = [sup EXCEPT
                     !.pc = "exited", !.quitTimer = FALSE,
                     !.child[c] = IF ~sup.killed /\ @ = "alive" THEN "ended"
                                  ELSE @]
    /\ UNCHANGED <<fnVars, rankVars, runVars, lock, poll>>

NextRunner ==
    \/ \E spawnOk \in BOOLEAN : RunnerStart(spawnOk)
    \/ \E c \in 1..MaxChildren, kept \in 0..MAX_CRASHES_IN_WINDOW : ChildExit(c, kept)
    \/ \E c \in 1..MaxChildren : ChildError(c)
    \/ \E spawnOk \in BOOLEAN : RestartTimerFires(spawnOk)
    \/ \E killOk \in BOOLEAN : quit(killOk)
    \/ QuitTimerFires

SpecRunner == InitProc /\ [][NextRunner]_vars

(***************************************************************************)
(* SpecPolling: the polling of one bot process: polling_error events, the  *)
(* restarts they schedule and shutdown.  A polling_error can be emitted    *)
(* while a getUpdates request is in flight, that is while polling is       *)
(* active or being stopped.                                                *)
(***************************************************************************)
\* botInstance.stopPolling() is called
StopPollingCalled(s) ==
    [s EXCEPT !.polling = IF @ = "active" THEN "stopping" ELSE @,
              !.startsSinceStop = 0]

\* restartPolling up to its `await botInstance.stopPolling()`
restartPolling(s) ==
    IF s.isShuttingDown THEN s
    ELSE [StopPollingCalled(s) EXCEPT !.awaiting = @ + 1]

\* restarts called for and not yet carried out
PendingRestarts(s) == s.awaiting + Len(s.timers) + s.retries

\* bot = startBot(): the bot is created with autoStart
BotStart ==
    /\ poll.pc = "off"
    /\ poll' = [poll EXCEPT !.pc = "up", !.polling = "active",
                            !.pollingErrorCount = 0]
    /\ UNCHANGED <<fnVars, rankVars, runVars, lock, sup>>

\* newBot.on('polling_error'): conflict says whether the message holds
\* '409' or 'Conflict'
PollingError(conflict) ==
    /\ poll.pc = "up"
    /\ poll.polling \in { "active", "stopping" }
    /\ poll.pollingErrorCount < MaxErrorCount
    /\ PendingRestarts(poll) < MaxRestarts
    /\ LET s == [poll EXCEPT !.pollingErrorCount = @ + 1]
       IN  poll' = IF conflict \/ s.pollingErrorCount >= MAX_POLLING_ERRORS
                   THEN restartPolling(s)
                   ELSE s
    /\ UNCHANGED <<fnVars, rankVars, runVars, lock, sup>>

\* the stopPolling awaited by a restartPolling call settles (a rejection is
\* caught): the restart callback is scheduled after 5 s, or 10 s
StopPollingSettles ==
    /\ poll.pc = "up"
    /\ poll.awaiting > 0
    /\ LET delay == IF poll.pollingErrorCount >= MAX_POLLING_ERRORS
                    THEN 10000 ELSE 5000
       IN  poll' = [poll EXCEPT
                      !.awaiting = @ - 1,
                      !.polling = IF @ = "stopping" THEN "stopped" ELSE @,
                      !.timers = Append(@, delay)]
    /\ UNCHANGED <<fnVars, rankVars, runVars, lock, sup>>

\* a restart callback runs: nothing when shutting down; else the count is
\* reset and startPolling is called, and a rejection schedules the 30 s retry
RestartCallback(i, startOk) ==
    /\ poll.pc = "up"
    /\ i \in 1..Len(poll.timers)
    /\ LET s == [poll EXCEPT !.timers = SubSeq(@, 1, i - 1)
                                         \o SubSeq(@, i + 1, Len(@))]
       IN  poll' =
             IF s.isShuttingDown THEN s
             ELSE [s EXCEPT
                     !.pollingErrorCount = 0,
                     !.startsSinceStop = Min(@ + 1, 2),
                     !.startedAfterShutdown = @ \/ s.isShuttingDown,
                     !.polling = IF startOk THEN "active" ELSE @,
                     !.retries = IF startOk THEN @ ELSE @ + 1]
    /\ UNCHANGED <<fnVars, rankVars, runVars, lock, sup>>

\* the 30 s timer: restartPolling(botInstance)
RetryTimerFires ==
    /\ poll.pc = "up"
    /\ poll.retries > 0
    /\ poll' = restartPolling([poll EXCEPT !.retries = @ - 1])
    /\ UNCHANGED <<fnVars, rankVars, runVars, lock, sup>>

\* shutdown(signal), first call: isShuttingDown is set and stopPolling
\* awaited
ShutdownBegins ==
    /\ poll.pc = "up"
    /\ ~poll.isShuttingDown
    /\ poll' = StopPollingCalled([poll EXCEPT !.isShuttingDown = TRUE])
    /\ UNCHANGED <<fnVars, rankVars, runVars, lock, sup>>

\* the stopPolling of shutdown has settled: removePidFile, process.exit(0)
ShutdownEnds ==
    /\ poll.pc = "up"
    /\ poll.isShuttingDown
    /\ poll' = [poll EXCEPT !.pc = "exited", !.polling = "stopped"]
    /\ UNCHANGED <<fnVars, rankVars, runVars, lock, sup>>

NextPolling ==
    \/ BotStart
    \/ \E conflict \in BOOLEAN : PollingError(conflict)
    \/ StopPollingSettles
    \/ \E i \in 1..MaxRestarts, startOk \in BOOLEAN : RestartCallback(i, startOk)
    \/ RetryTimerFires
    \/ ShutdownBegins
    \/ ShutdownEnds

SpecPolling == InitProc /\ [][NextPolling]_vars

(***************************************************************************)
(* Claims about the processes: PID lock, supervisor, polling restarts.     *)
(***************************************************************************)
\* q was started before p
Older(q, p) ==
    \E i, j \in 1..Len(lock.order) :
        i < j /\ lock.order[i] = q /\ lock.order[j] = p

\* C28: in every interleaving of process starts and shutdowns, once a
\* started process is past killExistingProcess and writePidFile no process
\* started before it is alive, and no shutdown has removed a PID file that
\* held another process's PID.
C28_PidLockExcludes ==
    /\ \A p, q \in 1..MaxProcs :
          (lock.pc[p] \in { "running", "stopping" } /\ Older(q, p)) => ~Alive(q)
    /\ ~lock.removedOther

\* a shutdown leaves a PID file that holds another PID in place
RemovesOnlyOwnPid == ~lock.removedOther

\* a process shut down while the file held the PID of a later process
ShutdownLeftOthersFile ==
    \E p \in 1..MaxProcs :
        lock.pc[p] = "dead" /\ lock.file # 0 /\ Older(p, lock.file)

\* C29: in every sequence of child 'exit' and 'error' events, restart timers
\* and quit(), at most one child is alive, no child was spawned while an
\* earlier one was alive, the handlers of one child have scheduled at most
\* one restart (exactly one once the child has ended without quit()), every
\* scheduled delay lies in 3000..60000 ms, and no child was spawned after
\* quit().
C29_OneChildAtATime ==
    /\ Cardinality(ChildrenAlive(sup)) <= 1
    /\ ~sup.spawnedOver
    /\ \A c \in 1..MaxChildren :
          /\ Len(sup.scheduled[c]) <= 1
          /\ (sup.child[c] = "ended" /\ ~sup.isQuitting) =>
                Len(sup.scheduled[c]) = 1
          /\ \A i \in 1..Len(sup.scheduled[c]) :
                sup.scheduled[c][i] \in MIN_RESTART_DELAY..MAX_RESTART_DELAY
    /\ ~sup.spawnedAfterQuit

\* what holds of every run: the delays and the silence after quit()
RunnerDelaysAndQuit ==
    /\ \A c \in 1..MaxChildren : \A i \in 1..Len(sup.scheduled[c]) :
          sup.scheduled[c][i] \in MIN_RESTART_DELAY..MAX_RESTART_DELAY
    /\ ~sup.spawnedAfterQuit

\* C30: in every sequence of polling_error events at most one restart
\* callback is pending, no stopPolling has been followed by two startPolling
\* calls, and startPolling has not been called after shutdown began.
C30_OneRestartPending ==
    /\ Len(poll.timers) <= 1
    /\ poll.startsSinceStop <= 1
    /\ ~poll.startedAfterShutdown

\* what holds of every run: no startPolling once shutdown has begun
NoStartAfterShutdown == ~poll.startedAfterShutdown

====
